---- MODULE Spec2Model ----
(***************************************************************************)
(* CLIMARISK-OG: the multi-hazard point risk engine                        *)
(* (backend/app/services/zarr_reader.py, ZarrDataReader.get_multi_risk_    *)
(* point), its HTTP entry (backend/app/routers/analysis.py) and the        *)
(* vulnerability curve store (backend/app/services/climada_impact.py).     *)
(*                                                                         *)
(* Numbers.  The program computes in IEEE doubles.  The model computes in  *)
(* exact rationals [n, d] (d > 0, lowest terms) and keeps one non-finite   *)
(* value, NaN == [n |-> 0, d |-> 0], with the comparisons and arithmetic   *)
(* of a NaN: every comparison with it is false, every sum or product with  *)
(* it is NaN.  Rounding of doubles is not modelled.                        *)
(***************************************************************************)
EXTENDS Integers, Sequences, FiniteSets, TLC

VARIABLES
    registry,           \* OffshoreImpactFunctions._registry
    asset_types,        \* climada_impact.ASSET_TYPES
    service_available,  \* zarr_reader._CLIMADA_SERVICE_AVAILABLE
    ds,                 \* the point series the dataset holds (ZarrDataReader.ds)
    pc,                 \* which call is pending, or "done"
    req,                \* arguments of the multi-risk call
    creq,               \* arguments of the curve-store call or of the wind-risk call
    ereq,               \* arguments of the _exceedance_probs call, if one is made
    resp                \* what the last call returned

vars == <<registry, asset_types, service_available, ds, pc, req, creq, ereq, resp>>

----------------------------------------------------------------------------
(* Bounds of the model *)

\* longest intensity array handed to calc_damage_ratio directly
MaxArr == 2

\* longest time axis of the dataset
MaxT == 2

----------------------------------------------------------------------------
(* Exact rationals with a NaN *)

Abs(x) == IF x < 0 THEN -x ELSE x

RECURSIVE Gcd(_, _)
Gcd(a, b) == IF b = 0 THEN a ELSE Gcd(b, a % b)

NaN == [n |-> 0, d |-> 0]

IsNaN(x) == x.d = 0

\* n/d in lowest terms with a positive denominator (d # 0)
Rat(n, d) ==
    LET over(g) == IF d < 0 THEN [n |-> (-n) \div g, d |-> (-d) \div g]
                   ELSE [n |-> n \div g, d |-> d \div g]
    IN  over(Gcd(Abs(n), Abs(d)))

R(i) == [n |-> i, d |-> 1]

Zero == R(0)
One == R(1)

\* sums and differences over the least common denominator
RAdd(x, y) == IF IsNaN(x) \/ IsNaN(y) THEN NaN
              ELSE IF x.d = y.d /\ x.d = 1 THEN [n |-> x.n + y.n, d |-> 1]
              ELSE LET over(g) == Rat(x.n * (y.d \div g) + y.n * (x.d \div g),
                                      (x.d \div g) * y.d)
                   IN  over(Gcd(x.d, y.d))
RSub(x, y) == IF IsNaN(x) \/ IsNaN(y) THEN NaN
              ELSE IF x.d = y.d /\ x.d = 1 THEN [n |-> x.n - y.n, d |-> 1]
              ELSE LET over(g) == Rat(x.n * (y.d \div g) - y.n * (x.d \div g),
                                      (x.d \div g) * y.d)
                   IN  over(Gcd(x.d, y.d))
RMul(x, y) == IF IsNaN(x) \/ IsNaN(y) THEN NaN
              ELSE IF x.d = y.d /\ x.d = 1 THEN [n |-> x.n * y.n, d |-> 1]
              ELSE LET over(g1, g2) == Rat((x.n \div g1) * (y.n \div g2),
                                           (x.d \div g2) * (y.d \div g1))
                   IN  over(Gcd(Abs(x.n), y.d), Gcd(Abs(y.n), x.d))
\* y is never zero where the program divides
RDiv(x, y) == IF IsNaN(x) \/ IsNaN(y) THEN NaN
              ELSE RMul(x, Rat(y.d, y.n))

RLt(x, y) ==
    LET over(g) == x.n * (y.d \div g) < y.n * (x.d \div g)
    IN  ~IsNaN(x) /\ ~IsNaN(y)
        /\ IF x.d = y.d THEN x.n < y.n ELSE over(Gcd(x.d, y.d))
RLe(x, y) ==
    LET over(g) == x.n * (y.d \div g) <= y.n * (x.d \div g)
    IN  ~IsNaN(x) /\ ~IsNaN(y)
        /\ IF x.d = y.d THEN x.n <= y.n ELSE over(Gcd(x.d, y.d))
\* a variant of RGe that holds of every pair that is not in the order x < y
RGe_not_less(x, y) == ~RLt(x, y)
RGe(x, y) == RLe(y, x)
RGt(x, y) == RLt(y, x)

\* Python's max(a, b) and min(a, b) on finite floats
RMax(x, y) == IF RGt(y, x) THEN y ELSE x
RMin(x, y) == IF RLt(y, x) THEN y ELSE x

\* np.clip(x, lo, hi): a NaN stays a NaN
Clip(x, lo, hi) == IF IsNaN(x) THEN NaN ELSE RMin(RMax(x, lo), hi)

Tenths(s) == [i \in DOMAIN s |-> Rat(s[i], 10)]
Hundredths(s) == [i \in DOMAIN s |-> Rat(s[i], 100)]

----------------------------------------------------------------------------
(* climada_impact.py: hazard codes and raw curve data *)

HAZ_WIND == "WS"
HAZ_WAVE == "OW"

fpso_wind_curve ==
    [intensity |-> Tenths(<<0, 100, 150, 200, 250, 300, 350, 400, 450, 500, 550, 650>>),
     mdd |-> Hundredths(<<0, 1, 4, 8, 14, 24, 35, 50, 65, 78, 88, 95>>),
     paa |-> Hundredths(<<0, 10, 30, 60, 85, 100, 100, 100, 100, 100, 100, 100>>)]

fpso_wave_curve ==
    [intensity |-> Tenths(<<0, 15, 25, 35, 45, 55, 65, 80, 100, 120>>),
     mdd |-> Hundredths(<<0, 1, 4, 10, 22, 38, 55, 72, 85, 93>>),
     paa |-> Hundredths(<<0, 10, 40, 70, 100, 100, 100, 100, 100, 100>>)]

subsea_wave_curve ==
    [intensity |-> Tenths(<<0, 30, 50, 70, 90, 120, 150>>),
     mdd |-> Hundredths(<<0, 0, 3, 10, 28, 55, 80>>),
     paa |-> Hundredths(<<0, 0, 20, 60, 100, 100, 100>>)]

generic_wind_step_curve ==
    [intensity |-> Tenths(<<0, 149, 150, 199, 200, 1000>>),
     mdd |-> Hundredths(<<0, 0, 35, 35, 100, 100>>),
     paa |-> Hundredths(<<100, 100, 100, 100, 100, 100>>)]

generic_wave_step_curve ==
    [intensity |-> Tenths(<<0, 19, 20, 39, 40, 200>>),
     mdd |-> Hundredths(<<0, 0, 35, 35, 100, 100>>),
     paa |-> Hundredths(<<100, 100, 100, 100, 100, 100>>)]

zero_wind_curve ==
    [intensity |-> Tenths(<<0, 1000>>),
     mdd |-> Hundredths(<<0, 0>>),
     paa |-> Hundredths(<<0, 0>>)]

\* _build_impact_func without CLIMADA installed: the _NumpyImpactFunc record
build_impact_func(haz_type, func_id, curve) ==
    [haz_type |-> haz_type, id |-> func_id,
     intensity |-> curve.intensity, mdd |-> curve.mdd, paa |-> curve.paa]

\* the value of dict.get for a missing key
None == [haz_type |-> "", id |-> 0, intensity |-> <<>>, mdd |-> <<>>, paa |-> <<>>]

\* OffshoreImpactFunctions._build_all: the registry after construction
build_all ==
    LET fpso == (HAZ_WIND :> build_impact_func(HAZ_WIND, 1, fpso_wind_curve))
                @@ (HAZ_WAVE :> build_impact_func(HAZ_WAVE, 2, fpso_wave_curve))
        subsea == (HAZ_WIND :> build_impact_func(HAZ_WIND, 3, zero_wind_curve))
                  @@ (HAZ_WAVE :> build_impact_func(HAZ_WAVE, 4, subsea_wave_curve))
        generic == (HAZ_WIND :> build_impact_func(HAZ_WIND, 5, generic_wind_step_curve))
                   @@ (HAZ_WAVE :> build_impact_func(HAZ_WAVE, 6, generic_wave_step_curve))
    IN  ("fpso" :> fpso) @@ ("fixed_platform" :> fpso) @@ ("support_vessel" :> fpso)
        @@ ("subsea_pipeline" :> subsea) @@ ("generic_offshore" :> generic)

\* the keys of the registry in the order _build_all assigns them
BuildOrder ==
    <<"fpso", "fixed_platform", "support_vessel", "subsea_pipeline", "generic_offshore">>

\* one assignment of _build_all: the stubs reuse the dict registered for the FPSO
build_next(reg) ==
    LET assigned(k) ==
            reg @@ (k :> IF k \in {"fixed_platform", "support_vessel"} THEN reg["fpso"]
                         ELSE build_all[k])
    IN  assigned(BuildOrder[Cardinality(DOMAIN reg) + 1])

\* a variant of registry_after_get that registers the generic curves under an asset
\* type it did not find
registry_after_get_caching(reg, asset_type) ==
    IF asset_type \in DOMAIN reg THEN reg
    ELSE reg @@ (asset_type :> reg["generic_offshore"])

\* the registry after OffshoreImpactFunctions.get: a lookup assigns nothing
registry_after_get(reg, asset_type) == reg

\* a variant of get that has no curve for an asset type outside the registry
get_registered_only(reg, asset_type, haz_type) ==
    IF asset_type \in DOMAIN reg /\ haz_type \in DOMAIN reg[asset_type]
    THEN reg[asset_type][haz_type] ELSE None

\* OffshoreImpactFunctions.get
get(reg, asset_type, haz_type) ==
    LET asset_key == IF asset_type \in DOMAIN reg THEN asset_type ELSE "generic_offshore"
    IN  IF haz_type \in DOMAIN reg[asset_key] THEN reg[asset_key][haz_type] ELSE None

\* func.mdd * func.paa
mdr_curve(func) == [i \in DOMAIN func.mdd |-> RMul(func.mdd[i], func.paa[i])]

\* a variant of interp that extends the last segment linearly beyond the table
interp_extrapolating(x, xp, fp, left, right) ==
    IF IsNaN(x) THEN NaN
    ELSE IF RLt(x, xp[1]) THEN left
    ELSE LET on(j) == RAdd(RMul(RDiv(RSub(fp[j + 1], fp[j]), RSub(xp[j + 1], xp[j])),
                                RSub(x, xp[j])),
                           fp[j])
         IN  on(IF RGe(x, xp[Len(xp)]) THEN Len(xp) - 1
                ELSE CHOOSE k \in 1..(Len(xp) - 1) : RLe(xp[k], x) /\ RLt(x, xp[k + 1]))

\* np.interp(x, xp, fp, left, right) at one x; xp is increasing
interp(x, xp, fp, left, right) ==
    IF IsNaN(x) THEN NaN
    ELSE IF RLt(x, xp[1]) THEN left
    ELSE IF RGt(x, xp[Len(xp)]) THEN right
    ELSE IF x = xp[Len(xp)] THEN fp[Len(xp)]
    ELSE LET on(j) == RAdd(RMul(RDiv(RSub(fp[j + 1], fp[j]), RSub(xp[j + 1], xp[j])),
                                RSub(x, xp[j])),
                           fp[j])
         IN  on(CHOOSE k \in 1..(Len(xp) - 1) : RLe(xp[k], x) /\ RLt(x, xp[k + 1]))

\* ClimadaImpactService.calc_damage_ratio
calc_damage_ratio(reg, haz_type, intensity, asset_type) ==
    LET ratio(func, mdr) ==
            IF func = None
            THEN [i \in DOMAIN intensity |-> Zero]
            ELSE [i \in DOMAIN intensity |->
                     Clip(interp(intensity[i], func.intensity, mdr, Zero, mdr[Len(mdr)]),
                          Zero, One)]
    IN  ratio(get(reg, asset_type, haz_type), mdr_curve(get(reg, asset_type, haz_type)))

\* ASSET_TYPES: the name and the status of every asset type
ASSET_TYPES ==
    ("fpso" :> [name |-> "FPSO / FLNG", status |-> "available"])
    @@ ("fixed_platform" :> [name |-> "Plataforma Fixa / Semi-submersivel", status |-> "stub"])
    @@ ("support_vessel" :> [name |-> "Embarcacao de Apoio (PSV / AHTS)", status |-> "stub"])
    @@ ("subsea_pipeline" :> [name |-> "Duto Submarino / Risers", status |-> "stub"])
    @@ ("generic_offshore" :> [name |-> "Offshore Generico (legado)", status |-> "legacy"])

\* the fine grid of get_curve_points has 100 points
FinePoints == 100

\* np.linspace(first, last, num)
linspace(first, last, num) ==
    [i \in 1..num |->
        IF i = num THEN last
        ELSE RAdd(first, RMul(Rat(i - 1, num - 1), RSub(last, first)))]

\* a variant of get_curve_points that reports the generic wind curve when the asset
\* type has no curve for the hazard
get_curve_points_generic(reg, haz_type, asset_type) ==
    LET points(func) ==
            LET fine(fine_x) ==
                    [haz_type |-> func.haz_type,
                     id |-> func.id,
                     asset_type |-> asset_type,
                     intensity |-> func.intensity,
                     mdd |-> func.mdd,
                     paa |-> func.paa,
                     mdr |-> mdr_curve(func),
                     fine_intensity |-> fine_x,
                     fine_mdr |-> calc_damage_ratio(reg, func.haz_type, fine_x, asset_type)]
            IN  fine(linspace(func.intensity[1], func.intensity[Len(func.intensity)],
                              FinePoints))
    IN  points(IF get(reg, asset_type, haz_type) = None
               THEN reg["generic_offshore"][HAZ_WIND]
               ELSE get(reg, asset_type, haz_type))

\* ClimadaImpactService.get_curve_points (the curve is named by its id)
get_curve_points(reg, haz_type, asset_type) ==
    LET points(func) ==
            IF func = None
            THEN [haz_type |-> haz_type,
                  asset_type |-> asset_type,
                  intensity |-> <<>>,
                  mdd |-> <<>>,
                  paa |-> <<>>,
                  mdr |-> <<>>,
                  fine_intensity |-> <<>>,
                  fine_mdr |-> <<>>]
            ELSE LET fine(fine_x) ==
                         [haz_type |-> func.haz_type,
                          id |-> func.id,
                          asset_type |-> asset_type,
                          intensity |-> func.intensity,
                          mdd |-> func.mdd,
                          paa |-> func.paa,
                          mdr |-> mdr_curve(func),
                          fine_intensity |-> fine_x,
                          fine_mdr |-> calc_damage_ratio(reg, haz_type, fine_x, asset_type)]
                 IN  fine(linspace(func.intensity[1], func.intensity[Len(func.intensity)],
                                   FinePoints))
    IN  points(get(reg, asset_type, haz_type))

\* ClimadaImpactService.describe_curve (the curve is named by its id)
describe_curve(reg, meta, haz_type, asset_type) ==
    LET described(func, asset_meta) ==
            IF func = None
            THEN [asset_type |-> asset_type, haz_type |-> haz_type, available |-> FALSE]
            ELSE [available |-> TRUE,
                  asset_type |-> asset_type,
                  asset_name |-> asset_meta.name,
                  curve_id |-> func.id,
                  haz_type |-> func.haz_type,
                  n_calibration_points |-> Len(func.intensity),
                  status |-> asset_meta.status]
    IN  described(get(reg, asset_type, haz_type),
                  IF asset_type \in DOMAIN meta THEN meta[asset_type]
                  ELSE meta["generic_offshore"])

\* ClimadaImpactService.get_available_asset_types
get_available_asset_types(meta) ==
    {[id |-> k, name |-> meta[k].name, status |-> meta[k].status] : k \in DOMAIN meta}

----------------------------------------------------------------------------
(* zarr_reader.py: helpers on arrays *)

\* the hours of a year, the numerator of the annualization factor
HoursPerYear == 8760

Range(s) == {s[i] : i \in DOMAIN s}

RECURSIVE RSum(_)
RSum(s) == IF Len(s) = 0 THEN Zero ELSE RAdd(s[1], RSum(Tail(s)))

\* np.mean: a NaN in the array makes the mean NaN (the array is not empty)
Mean(s) == RDiv(RSum(s), R(Len(s)))

\* np.nanmax: the largest finite value, NaN when there is none (the array is not empty)
NanMax(s) ==
    LET fin == {x \in Range(s) : ~IsNaN(x)}
    IN  IF fin = {} THEN NaN ELSE CHOOSE x \in fin : \A y \in fin : RLe(y, x)

\* a variant of CountState that counts the samples at or above the state
CountState_at_least(status, k) == Cardinality({i \in DOMAIN status : status[i] >= k})

\* int(np.sum(status == k))
CountState(status, k) == Cardinality({i \in DOMAIN status : status[i] = k})

IMax(a, b) == IF a >= b THEN a ELSE b

\* values[np.isfinite(values)]
Finite(s) ==
    LET isfinite(x) == ~IsNaN(x)
    IN  SelectSeq(s, isfinite)

Remove(s, i) == SubSeq(s, 1, i - 1) \o SubSeq(s, i + 1, Len(s))

\* np.sort of an array without NaN
RECURSIVE Sort(_)
Sort(s) ==
    LET from(i) == <<s[i]>> \o Sort(Remove(s, i))
    IN  IF Len(s) = 0 THEN <<>>
        ELSE from(CHOOSE k \in DOMAIN s : \A j \in DOMAIN s : RLe(s[k], s[j]))

\* s[::-1]
Reversed(s) == [i \in DOMAIN s |-> s[Len(s) + 1 - i]]

\* np.nanmean: the mean of the finite values, NaN when there is none
NanMean(s) ==
    LET f == Finite(s)
    IN  IF Len(f) = 0 THEN NaN ELSE Mean(f)

\* np.nanstd squared: the population variance of the finite values
NanVar(s) ==
    LET square(x) == RMul(x, x)
        around(f, mu) == IF Len(f) = 0 THEN NaN
                         ELSE Mean([i \in DOMAIN f |-> square(RSub(f[i], mu))])
    IN  around(Finite(s), Mean(Finite(s)))

\* np.nanquantile(s, q), method 'linear': the finite values sorted, read at the
\* position q*(m-1) with linear interpolation between the two neighbours
nanquantile(s, q) ==
    LET between(a, j, g) ==
            IF j + 1 >= Len(a) THEN a[Len(a)]
            ELSE RAdd(a[j + 1], RMul(g, RSub(a[j + 2], a[j + 1])))
        at(a, h) == between(a, h.n \div h.d, RSub(h, R(h.n \div h.d)))
        m == Len(Finite(s))
    IN  IF m = 0 THEN NaN
        ELSE at(Sort(Finite(s)), RMul(q, R(m - 1)))

\* np.nanpercentile(s, p)
nanpercentile(s, p) == nanquantile(s, Rat(p, 100))

\* a number rat + sqrt(sq): the program's std * np.sqrt(annualization) is kept exact
\* as the square root of variance * annualization
Surd(rat, sq) == [rat |-> rat, sq |-> sq]

\* (value or default) on an optional string: None and "" are falsy
OrDefault(opt, default) == IF opt = <<>> \/ opt[1] = "" THEN default ELSE opt[1]

\* str.lower on the method names the model draws
Lower(s) ==
    CASE s = "HAZEN" -> "hazen"
      [] s = "Gringorten" -> "gringorten"
      [] s = "Weibull" -> "weibull"
      [] s = "VAR" -> "var"
      [] s = "TVaR" -> "tvar"
      [] s = "StDev" -> "stdev"
      [] OTHER -> s

\* dict.get(key, default)
DictGet(dict, key, default) == IF key \in DOMAIN dict THEN dict[key] ELSE default

\* the empty dict
EmptyDict == <<>>

----------------------------------------------------------------------------
(* get_multi_risk_point, lines 386-401: the series fetched and aligned *)

\* a variant of series_keys that analyses the wind when no hazard is recognized
series_keys_default_wind(hazards) ==
    IF "wind" \notin hazards /\ "wave" \notin hazards THEN <<"wind">>
    ELSE (IF "wind" \in hazards THEN <<"wind">> ELSE <<>>)
         \o (IF "wave" \in hazards THEN <<"wave">> ELSE <<>>)

\* the requested hazards the engine supports, in the order series_map is filled
series_keys(hazards) ==
    (IF "wind" \in hazards THEN <<"wind">> ELSE <<>>)
    \o (IF "wave" \in hazards THEN <<"wave">> ELSE <<>>)

\* xr.align(..., join="inner"): the timestamps every fetched series has
common_times(data, keys) ==
    {t \in {data[keys[1]][i].t : i \in DOMAIN data[keys[1]]} :
        \A k \in Range(keys) : \E i \in DOMAIN data[k] : data[k][i].t = t}

\* a variant of align that keeps every timestamp of the series
align_keeping_all(series, common) == series

align(series, common) ==
    LET keep(e) == e.t \in common
    IN  SelectSeq(series, keep)

series_values(series) == [i \in DOMAIN series |-> series[i].v]
series_times(series) == [i \in DOMAIN series |-> series[i].t]

----------------------------------------------------------------------------
(* get_multi_risk_point, lines 412-430: the per-hazard classification *)

operational_of(thresholds, hazard) ==
    DictGet(DictGet(thresholds, hazard, EmptyDict), "operational_max", Zero)

attention_of(thresholds, hazard) ==
    DictGet(DictGet(thresholds, hazard, EmptyDict), "attention_max",
            operational_of(thresholds, hazard))

\* a variant of classify whose stop test is strict (values > attention)
classify_strict_stop(values, operational, attention) ==
    LET s1 == [i \in DOMAIN values |-> IF RGt(values[i], attention) THEN 2 ELSE 0]
    IN  [i \in DOMAIN values |->
            IF RGe(values[i], operational) /\ RLt(values[i], attention) THEN 1 ELSE s1[i]]

\* status = zeros; where(values >= attention, 2); where(operational <= values < attention, 1)
classify(values, operational, attention) ==
    LET s0 == [i \in DOMAIN values |-> 0]
        s1 == [i \in DOMAIN values |-> IF RGe(values[i], attention) THEN 2 ELSE s0[i]]
    IN  [i \in DOMAIN values |->
            IF RGe(values[i], operational) /\ RLt(values[i], attention) THEN 1 ELSE s1[i]]

\* hazards_out[hazard]
hazard_summary(values, status, operational, attention) ==
    [mean |-> NanMean(values),
     max |-> NanMax(values),
     operational_hours |-> CountState(status, 0),
     attention_hours |-> CountState(status, 1),
     stop_hours |-> CountState(status, 2),
     operational_max |-> operational,
     attention_max |-> attention]

----------------------------------------------------------------------------
(* _exceedance_probs, and get_multi_risk_point lines 437-474: the distribution *)
(* and the metrics of one series                                              *)

\* a variant of exceedance_probs that numbers the ranks from the smallest value
exceedance_probs_descending(n, method) ==
    IF n <= 0 THEN <<>>
    ELSE LET m == Lower(OrDefault(method, "weibull"))
         IN  [r \in 1..n |->
                 Clip(IF m = "hazen" THEN Rat(2 * (n + 1 - r) - 1, 2 * n)
                      ELSE IF m = "gringorten" THEN Rat(100 * (n + 1 - r) - 44, 100 * n + 12)
                      ELSE Rat(n + 1 - r, n + 1),
                      Zero, One)]

\* ZarrDataReader._exceedance_probs: rank = 1..n, the plotting position, clipped
exceedance_probs(n, method) ==
    IF n <= 0 THEN <<>>
    ELSE LET m == Lower(OrDefault(method, "weibull"))
         IN  [r \in 1..n |->
                 Clip(IF m = "hazen" THEN Rat(2 * r - 1, 2 * n)
                      ELSE IF m = "gringorten" THEN Rat(100 * r - 44, 100 * n + 12)
                      ELSE Rat(r, n + 1),
                      Zero, One)]

\* bins=20
HistBins == 20

Least(s) == CHOOSE x \in Range(s) : \A y \in Range(s) : RLe(x, y)

\* the range np.histogram spreads its bins over: [min, max], widened by 0.5 on each
\* side when all values are equal
hist_range(clean) ==
    LET outer(first_edge, last_edge) ==
            IF first_edge = last_edge
            THEN [lo |-> RSub(first_edge, Rat(1, 2)), hi |-> RAdd(last_edge, Rat(1, 2))]
            ELSE [lo |-> first_edge, hi |-> last_edge]
    IN  outer(Least(clean), NanMax(clean))

\* bin_edges: 21 evenly spaced edges from lo to hi (edge i at index i + 1)
hist_edges(rng) ==
    LET spread(width) ==
            [i \in 1..(HistBins + 1) |-> RAdd(rng.lo, RMul(Rat(i - 1, HistBins), width))]
    IN  spread(RSub(rng.hi, rng.lo))

\* the bin (1..20) a value falls in; the last bin is closed on the right
hist_bin_of(rng, x) ==
    LET floor(pos) == pos.n \div pos.d
    IN  IF x = rng.hi THEN HistBins
        ELSE floor(RMul(R(HistBins), RDiv(RSub(x, rng.lo), RSub(rng.hi, rng.lo)))) + 1

\* counts of np.histogram(clean, bins=20)
hist_counts(clean) ==
    LET bins_of(rng) == [i \in DOMAIN clean |-> hist_bin_of(rng, clean[i])]
        counted(bin) == [b \in 1..HistBins |-> Cardinality({i \in DOMAIN clean : bin[i] = b})]
    IN  counted(bins_of(hist_range(clean)))

\* (bin_edges[:-1] + bin_edges[1:]) / 2
hist_bins(clean) ==
    LET centers(bin_edges) ==
            [b \in 1..HistBins |-> RMul(RAdd(bin_edges[b], bin_edges[b + 1]), Rat(1, 2))]
    IN  centers(hist_edges(hist_range(clean)))

\* distributions_out[hazard]
distribution(values, exceedance_method) ==
    LET curve(clean, sorted_vals) ==
            [hist_bins |-> hist_bins(clean),
             hist_counts |-> hist_counts(clean),
             exceedance_values |-> sorted_vals,
             exceedance_probs |-> exceedance_probs(Len(sorted_vals), exceedance_method)]
    IN  IF Len(Finite(values)) > 0
        THEN curve(Finite(values), Reversed(Sort(Finite(values))))
        ELSE [hist_bins |-> <<>>,
              hist_counts |-> <<>>,
              exceedance_values |-> <<>>,
              exceedance_probs |-> <<>>]

\* a variant of metrics that has no branch for an empty cleaned array
metrics_unguarded(values) ==
    LET of(clean, pct) ==
            [mean |-> NanMean(clean),
             max |-> IF Len(clean) > 0 THEN NanMax(clean) ELSE NaN,
             p50 |-> pct[50], p90 |-> pct[90], p95 |-> pct[95], p99 |-> pct[99]]
    IN  of(Finite(values), [p \in {50, 90, 95, 99} |-> nanpercentile(Finite(values), p)])

\* metrics_out[hazard], and metrics_out["combined"] on the score
metrics(values) ==
    LET of(clean, pct) ==
            [mean |-> NanMean(clean),
             max |-> NanMax(clean),
             p50 |-> pct[50], p90 |-> pct[90], p95 |-> pct[95], p99 |-> pct[99]]
    IN  IF Len(Finite(values)) > 0
        THEN of(Finite(values), [p \in {50, 90, 95, 99} |-> nanpercentile(Finite(values), p)])
        ELSE [mean |-> Zero, max |-> Zero, p50 |-> Zero, p90 |-> Zero,
              p95 |-> Zero, p99 |-> Zero]

\* combined_exceedance, lines 678-685 and 695
combined_exceedance(score, exceedance_method) ==
    LET curve(sorted_score) ==
            [values |-> sorted_score,
             probs |-> exceedance_probs(Len(sorted_score), exceedance_method)]
    IN  IF Len(Finite(score)) > 0
        THEN curve(Reversed(Sort(Finite(score))))
        ELSE [values |-> <<>>, probs |-> <<>>]

----------------------------------------------------------------------------
(* get_multi_risk_point, lines 476-583: the per-hazard loss series and its price *)

\* np.clip(attention_loss_factor, 0.0, 1.0)
attention_factor_of(attention_loss_factor) == Clip(attention_loss_factor, Zero, One)

\* max(stop_loss_factor, attention_factor)
stop_factor_of(stop_loss_factor, attention_factor) ==
    IF RGt(attention_factor, stop_loss_factor) THEN attention_factor ELSE stop_loss_factor

\* np.where(status == 2, stop_factor, np.where(status == 1, attention_factor, 0.0))
discrete_ratio(status, attention_factor, stop_factor) ==
    [i \in DOMAIN status |->
        IF status[i] = 2 THEN stop_factor
        ELSE IF status[i] = 1 THEN attention_factor ELSE Zero]

\* _use_climada of the per-hazard pricing
use_climada(avail, asset_type) ==
    avail /\ asset_type # "" /\ asset_type \notin {"generic_offshore", ""}

haz_code(hazard) == IF hazard = "wind" THEN HAZ_WIND ELSE HAZ_WAVE

hazard_damage_ratio(reg, avail, hazard, values, status, asset_type, attention_factor, stop_factor) ==
    IF use_climada(avail, asset_type)
    THEN calc_damage_ratio(reg, haz_code(hazard), values, asset_type)
    ELSE discrete_ratio(status, attention_factor, stop_factor)

scale(asset_value_f, ratio) == [i \in DOMAIN ratio |-> RMul(asset_value_f, ratio[i])]

\* 8760.0 / max(float(size), 1.0)
hazard_annualization(size) == Rat(HoursPerYear, IMax(size, 1))

\* a variant of quantile_of that prices at the caller's quantile as given
quantile_unclamped(risk_quantile) == risk_quantile

\* float(np.clip(risk_quantile, 0.5, 0.999))
quantile_of(risk_quantile) == Clip(risk_quantile, Rat(1, 2), Rat(999, 1000))

\* float(np.mean(loss_per_step)) * annualization
aal_of(loss_per_step, annualization) == RMul(Mean(loss_per_step), annualization)

\* a variant of pml_of that takes the mean of the finite losses, not the largest
pml_of_mean(loss_per_step, annualization) == RMul(NanMean(loss_per_step), annualization)

\* float(np.nanmax(loss_per_step)) * annualization
pml_of(loss_per_step, annualization) == RMul(NanMax(loss_per_step), annualization)

\* a variant of var_at that reports the quantile in excess of the mean
var_at_excess(loss_per_step, q, annualization) ==
    RMul(RSub(nanquantile(loss_per_step, q), Mean(loss_per_step)), annualization)

\* float(np.nanquantile(loss_per_step, q)) * annualization
var_at(loss_per_step, q, annualization) == RMul(nanquantile(loss_per_step, q), annualization)

\* loss_per_step[loss_per_step >= np.nanquantile(loss_per_step, q)]
tail_of(loss_per_step, q) ==
    LET above(threshold) ==
            LET in_tail(x) == RGe(x, threshold)
            IN  SelectSeq(loss_per_step, in_tail)
    IN  above(nanquantile(loss_per_step, q))

\* a variant of tvar_at that reports the quantile itself
tvar_at_quantile(loss_per_step, q, annualization) ==
    RMul(nanquantile(loss_per_step, q), annualization)

\* (nanmean(tail) if tail.size else nanquantile(loss_per_step, q)) * annualization
tvar_at(loss_per_step, q, annualization) ==
    LET over(tail) == IF Len(tail) > 0 THEN NanMean(tail) ELSE nanquantile(loss_per_step, q)
    IN  RMul(over(tail_of(loss_per_step, q)), annualization)

\* (risk_load_method or "none").lower()
method_of(risk_load_method) == Lower(OrDefault(risk_load_method, "none"))

\* the risk load by method; 'stdev' is nanstd * sqrt(annualization), kept as the
\* square root of nanstd^2 * annualization
risk_load_of(method, var_q, tvar_q, aal, loss_per_step, annualization) ==
    IF method = "var" THEN Surd(RMax(RSub(var_q, aal), Zero), Zero)
    ELSE IF method = "tvar" THEN Surd(RMax(RSub(tvar_q, aal), Zero), Zero)
    ELSE IF method = "stdev" THEN Surd(Zero, RMul(NanVar(loss_per_step), annualization))
    ELSE Surd(Zero, Zero)

\* float(max(expense_ratio, 0.0))
expense_of(expense_ratio) == RMax(expense_ratio, Zero)

\* a variant of technical_premium that adds the expense ratio as an amount
technical_premium_flat_expense(pure_premium, expense_ratio, risk_load) ==
    Surd(RAdd(RAdd(pure_premium, expense_of(expense_ratio)), risk_load.rat), risk_load.sq)

\* pure_premium * (1.0 + float(max(expense_ratio, 0.0))) + risk_load
technical_premium(pure_premium, expense_ratio, risk_load) ==
    Surd(RAdd(RMul(pure_premium, RAdd(One, expense_of(expense_ratio))), risk_load.rat),
         risk_load.sq)

\* sensitivity_quantiles = [0.90, 0.95, 0.99]
sensitivity_quantiles == <<Rat(90, 100), Rat(95, 100), Rat(99, 100)>>

\* the loop of lines 528-552
quantile_sensitivity(loss_per_step, annualization, method, aal, expense_ratio) ==
    LET entry(q, var_q, tvar_q) ==
            [quantile |-> q,
             var |-> var_q,
             tvar |-> tvar_q,
             technical_premium |->
                 technical_premium(aal, expense_ratio,
                                   risk_load_of(method, var_q, tvar_q, aal, loss_per_step,
                                                annualization))]
        at(q) == entry(q, var_at(loss_per_step, q, annualization),
                       tvar_at(loss_per_step, q, annualization))
    IN  [k \in DOMAIN sensitivity_quantiles |-> at(sensitivity_quantiles[k])]

hazard_pricing(reg, avail, hazard, values, status, a) ==
    LET asset_value_f == a.asset_value[1]
        quantile == quantile_of(a.risk_quantile)
        attention_factor == attention_factor_of(a.attention_loss_factor)
        stop_factor == stop_factor_of(a.stop_loss_factor, attention_factor)
        annualization == hazard_annualization(Len(status))
        method == method_of(a.risk_load_method)
        record(hazard_loss_per_step, hazard_aal, hazard_var_q, hazard_tvar_q,
               hazard_risk_load) ==
            [asset_value |-> asset_value_f,
             attention_loss_factor |-> attention_factor,
             stop_loss_factor |-> stop_factor,
             continuous |-> use_climada(avail, a.asset_type),
             loss_per_step |-> hazard_loss_per_step,
             total_steps |-> Len(status),
             annualization_factor |-> annualization,
             aal |-> hazard_aal,
             pml |-> pml_of(hazard_loss_per_step, annualization),
             var |-> hazard_var_q,
             tvar |-> hazard_tvar_q,
             risk_load_method |-> method,
             risk_load |-> hazard_risk_load,
             expense_ratio |-> expense_of(a.expense_ratio),
             pure_premium |-> hazard_aal,
             technical_premium |-> technical_premium(hazard_aal, a.expense_ratio,
                                                     hazard_risk_load),
             exceedance_method |-> a.exceedance_method,
             risk_quantile |-> quantile,
             quantile_sensitivity |-> quantile_sensitivity(hazard_loss_per_step,
                                                           annualization, method,
                                                           hazard_aal, a.expense_ratio)]
        \* lines 513-521: the risk load of the measures
        loaded(hazard_loss_per_step, hazard_aal, hazard_var_q, hazard_tvar_q) ==
            record(hazard_loss_per_step, hazard_aal, hazard_var_q, hazard_tvar_q,
                   risk_load_of(method, hazard_var_q, hazard_tvar_q, hazard_aal,
                                hazard_loss_per_step, annualization))
        \* lines 504-511: the measures of the loss series
        measured(hazard_loss_per_step) ==
            loaded(hazard_loss_per_step,
                   aal_of(hazard_loss_per_step, annualization),
                   var_at(hazard_loss_per_step, quantile, annualization),
                   tvar_at(hazard_loss_per_step, quantile, annualization))
    IN  measured(scale(asset_value_f,
                       hazard_damage_ratio(reg, avail, hazard, values, status, a.asset_type,
                                           attention_factor, stop_factor)))

\* asset_value is not None and float(asset_value) > 0
priced(a) == a.asset_value # <<>> /\ RGt(a.asset_value[1], Zero)

----------------------------------------------------------------------------
(* get_multi_risk_point, lines 643-676: the combination and the stop cost *)

\* a variant of weights_used that keeps a non-positive weight
weights_used_uncoerced(weights, hazard) == DictGet(weights, hazard, One)

\* weight_map.get(hazard, 1.0), and np.where(weights_used <= 0, 1.0, weights_used)
weights_used(weights, hazard) ==
    LET w == DictGet(weights, hazard, One)
    IN  IF RLe(w, Zero) THEN One ELSE w

\* np.average(stacked, axis=0, weights=weights_used) at index i
weighted_score(status_map, keys, weights, i) ==
    LET num == RSum([k \in DOMAIN keys |->
                        RMul(weights_used(weights, keys[k]), R(status_map[keys[k]][i]))])
        den == RSum([k \in DOMAIN keys |-> weights_used(weights, keys[k])])
    IN  RDiv(num, den)

\* the re-thresholding of the weighted score
rethreshold(score) ==
    LET c0 == [i \in DOMAIN score |-> 0]
        c1 == [i \in DOMAIN score |-> IF RGe(score[i], Rat(3, 2)) THEN 2 ELSE c0[i]]
    IN  [i \in DOMAIN score |->
            IF RGe(score[i], Rat(1, 2)) /\ RLt(score[i], Rat(3, 2)) THEN 1 ELSE c1[i]]

\* a variant of worst_state that takes the first hazard's state
worst_state_first(status_map, keys, i) == status_map[keys[1]][i]

\* np.maximum.reduce(status_list) at index i
worst_state(status_map, keys, i) ==
    CHOOSE m \in {status_map[k][i] : k \in Range(keys)} :
        \A k \in Range(keys) : status_map[k][i] <= m

combine_score(status_map, keys, n, combine_mode, weights) ==
    IF combine_mode = "weighted"
    THEN [i \in 1..n |-> weighted_score(status_map, keys, weights, i)]
    ELSE [i \in 1..n |-> R(worst_state(status_map, keys, i))]

combine_status(status_map, keys, n, combine_mode, weights) ==
    IF combine_mode = "weighted"
    THEN rethreshold(combine_score(status_map, keys, n, combine_mode, weights))
    ELSE [i \in 1..n |-> worst_state(status_map, keys, i)]

combined_summary(combined_status) ==
    [operational_hours |-> CountState(combined_status, 0),
     attention_hours |-> CountState(combined_status, 1),
     stop_hours |-> CountState(combined_status, 2),
     total_hours |-> Len(combined_status)]

\* max(1.0, float(multiplier))
floor_multiplier(multiplier) == IF RGt(multiplier, One) THEN multiplier ELSE One

\* np.sum(np.logical_and.reduce([status_map[h] >= 1 for h in status_map]))
all_attention_steps(status_map, keys, n) ==
    Cardinality({i \in 1..n : \A k \in Range(keys) : status_map[k][i] >= 1})

effective_stop_hours(status_map, keys, n, stop_hours, combine_mode, multiplier) ==
    IF combine_mode = "multiplier"
    THEN RAdd(R(stop_hours),
              RMul(R(all_attention_steps(status_map, keys, n)),
                   RSub(floor_multiplier(multiplier), One)))
    ELSE R(stop_hours)

\* pricing: None, or the stop cost
stop_cost_pricing(stop_cost_per_hour, effective) ==
    IF stop_cost_per_hour = <<>> THEN <<>>
    ELSE <<[stop_cost |-> RMul(stop_cost_per_hour[1], effective),
            total_cost |-> RMul(stop_cost_per_hour[1], effective)]>>

----------------------------------------------------------------------------
(* get_multi_risk_point, lines 705-759: the price of the combined series *)

\* a variant of combined_annualization that annualizes by days, not hours
combined_annualization_daily(total_hours) == Rat(365, IMax(total_hours, 1))

\* 8760.0 / max(float(combined["total_hours"]), 1.0)
combined_annualization(total_hours) == Rat(HoursPerYear, IMax(total_hours, 1))

combined_pricing(combined_status, total_hours, a) ==
    LET asset_value_f == a.asset_value[1]
        attention_factor == attention_factor_of(a.attention_loss_factor)
        stop_factor == stop_factor_of(a.stop_loss_factor, attention_factor)
        annualization == combined_annualization(total_hours)
        quantile == quantile_of(a.risk_quantile)
        method == method_of(a.risk_load_method)
        record(loss_per_step, aal, var_q, tvar_q, risk_load) ==
            [asset_value |-> asset_value_f,
             attention_loss_factor |-> attention_factor,
             stop_loss_factor |-> stop_factor,
             continuous |-> FALSE,
             loss_per_step |-> loss_per_step,
             total_steps |-> total_hours,
             annualization_factor |-> annualization,
             aal |-> aal,
             pml |-> pml_of(loss_per_step, annualization),
             var |-> var_q,
             tvar |-> tvar_q,
             risk_load_method |-> method,
             risk_load |-> risk_load,
             expense_ratio |-> expense_of(a.expense_ratio),
             pure_premium |-> aal,
             technical_premium |-> technical_premium(aal, a.expense_ratio, risk_load),
             exceedance_method |-> a.exceedance_method,
             risk_quantile |-> quantile]
        \* lines 730-738: the risk load of the measures
        loaded(loss_per_step, aal, var_q, tvar_q) ==
            record(loss_per_step, aal, var_q, tvar_q,
                   risk_load_of(method, var_q, tvar_q, aal, loss_per_step, annualization))
        \* lines 722-728: the measures of the loss series
        measured(loss_per_step) ==
            loaded(loss_per_step,
                   aal_of(loss_per_step, annualization),
                   var_at(loss_per_step, quantile, annualization),
                   tvar_at(loss_per_step, quantile, annualization))
    IN  measured(scale(asset_value_f,
                       discrete_ratio(combined_status, attention_factor, stop_factor)))

----------------------------------------------------------------------------
(* get_multi_risk_point, lines 585-641: the wind rose *)

\* np.linspace(0, 360, 17): the edges of the 16 sectors
SectorEdges == 17
FullCircle == 360

direction_labels ==
    <<"N", "NNE", "NE", "ENE", "E", "ESE", "SE", "SSE",
      "S", "SSW", "SW", "WSW", "W", "WNW", "NW", "NNW">>

\* the defaults of the wind rose: 15.0 and max(20.0, wind_operational)
RoseOperationalDefault == R(15)
RoseAttentionFloor == R(20)

\* start <= x < end, and x <= end in the last bin: the bins of np.histogram over given
\* edges and the sector_mask of the spoke loop; a NaN is in no bin
in_bin(x, edges, idx) ==
    /\ RGe(x, edges[idx])
    /\ IF idx = Len(edges) - 1 THEN RLe(x, edges[idx + 1]) ELSE RLt(x, edges[idx + 1])

\* np.histogram(values, bins=edges)[0]
histogram(values, edges) ==
    [idx \in 1..(Len(edges) - 1) |->
        Cardinality({j \in DOMAIN values : in_bin(values[j], edges, idx)})]

\* int(x) of a non-negative float
Trunc(x) == x.n \div x.d

\* direction_values: the wind's own axis; wind_values: the aligned wind series, of the
\* same length
wind_rose(direction_values, wind_values, thresholds) ==
    LET wind_limits == DictGet(thresholds, "wind", EmptyDict)
        finite(e) == ~IsNaN(e.d) /\ ~IsNaN(e.w)
        directions(s) == [i \in DOMAIN s |-> s[i].d]
        speeds(s) == [i \in DOMAIN s |-> s[i].w]
        rose(bins, wind_operational, wind_attention, clean) ==
            LET operational_mask(e) == RLt(e.w, wind_operational)
                attention_mask(e) == RGe(e.w, wind_operational) /\ RLt(e.w, wind_attention)
                stop_mask(e) == RGe(e.w, wind_attention)
                spoke(idx) ==
                    LET sector_mask(e) == in_bin(e.d, bins, idx)
                        seen(sector) == IF sector # <<>> THEN NanMax(speeds(sector))
                                        ELSE Zero
                    IN  seen(SelectSeq(clean, sector_mask))
            IN  [bins |-> [i \in 1..(Len(bins) - 1) |->
                              <<Trunc(bins[i]), Trunc(bins[i + 1])>>],
                 direction_labels |-> direction_labels,
                 spoke_max_values |-> [idx \in DOMAIN direction_labels |-> spoke(idx)],
                 global_max_speed |-> IF clean # <<>> THEN NanMax(speeds(clean)) ELSE Zero,
                 counts |-> histogram(direction_values, bins),
                 operational_counts |->
                     histogram(directions(SelectSeq(clean, operational_mask)), bins),
                 attention_counts |->
                     histogram(directions(SelectSeq(clean, attention_mask)), bins),
                 stop_counts |-> histogram(directions(SelectSeq(clean, stop_mask)), bins),
                 limits |-> [operational_max |-> wind_operational,
                             attention_max |-> wind_attention]]
        limited(wind_operational) ==
            rose(linspace(Zero, R(FullCircle), SectorEdges),
                 wind_operational,
                 DictGet(wind_limits, "attention_max",
                         RMax(RoseAttentionFloor, wind_operational)),
                 SelectSeq([i \in DOMAIN direction_values |->
                               [d |-> direction_values[i], w |-> wind_values[i]]],
                           finite))
    IN  limited(DictGet(wind_limits, "operational_max", RoseOperationalDefault))

----------------------------------------------------------------------------
(* get_multi_risk_point, lines 760-771: the curves the analysis used *)

\* impact_functions_used: empty without the curve service
impact_functions_used(reg, meta, avail, keys, asset_type) ==
    LET used(hazard) ==
            LET described(curve) ==
                    IF asset_type \notin {"generic_offshore", ""}
                    THEN curve @@ ("curve_points" :>
                                      get_curve_points(reg, haz_code(hazard), asset_type))
                    ELSE curve
            IN  described(describe_curve(reg, meta, haz_code(hazard), asset_type))
    IN  IF avail THEN [hazard \in Range(keys) |-> used(hazard)] ELSE EmptyDict

----------------------------------------------------------------------------
(* get_multi_risk_point as a whole *)

Error(detail) == [status |-> "error", detail |-> detail]

\* lines 772-804: the result; c holds the arguments and the aligned series
analysis_result(c, values, status_map, score, combined_status, combined, effective) ==
    [status |-> "ok",
     time |-> series_times(c.aligned[c.keys[1]]),
     keys |-> c.keys,
     values |-> values,
     status_map |-> status_map,
     hazards |-> [k \in Range(c.keys) |->
                     hazard_summary(values[k], status_map[k], c.operational[k],
                                    c.attention[k])],
     distributions |-> [k \in Range(c.keys) |->
                           distribution(values[k], c.a.exceedance_method)],
     metrics |-> [k \in Range(c.keys) \cup {"combined"} |->
                     metrics(IF k = "combined" THEN score ELSE values[k])],
     combined_exceedance |-> combined_exceedance(score, c.a.exceedance_method),
     series |->
         IF ~c.a.include_series THEN <<>>
         ELSE IF "wind" \in c.a.hazards
         THEN <<values @@ ("wind_direction_deg" :> c.data.direction)>>
         ELSE <<values>>,
     wind_rose |->
         IF "wind" \in c.a.hazards
         THEN <<wind_rose(c.data.direction, values["wind"], c.a.thresholds)>>
         ELSE <<>>,
     \* the keys of the result whose value is None: an empty dict and None are both
     \* <<>> here (lines 409-410, 670, 705)
     none_keys |->
         (IF "wind" \in c.a.hazards THEN {} ELSE {"wind_rose"})
         \cup (IF c.a.stop_cost_per_hour = <<>> THEN {"pricing"} ELSE {})
         \cup (IF priced(c.a) THEN {} ELSE {"pricing_models"}),
     impact_functions_used |->
         impact_functions_used(c.reg, c.meta, c.avail, c.keys, c.a.asset_type),
     score |-> score,
     combined_status |-> combined_status,
     combined |-> combined,
     combine_mode |-> c.a.combine_mode,
     effective_stop_hours |-> effective,
     pricing |-> stop_cost_pricing(c.a.stop_cost_per_hour, effective),
     pricing_models |->
         IF priced(c.a)
         THEN <<combined_pricing(combined_status, combined.total_hours, c.a)>>
         ELSE <<>>,
     hazard_pricing_models |->
         IF priced(c.a) /\ c.n > 0
         THEN [k \in Range(c.keys) |->
                  hazard_pricing(c.reg, c.avail, k, values[k], status_map[k], c.a)]
         ELSE EmptyDict,
     asset_type |-> c.a.asset_type]

\* lines 664-668: the effective stop hours of the combined counts
analysis_counted(c, values, status_map, score, combined_status, combined) ==
    analysis_result(c, values, status_map, score, combined_status, combined,
                    effective_stop_hours(status_map, c.keys, c.n, combined.stop_hours,
                                         c.a.combine_mode, c.a.multiplier))

\* lines 643-662: the score, the combined status and its counts
analysis_combined(c, values, status_map) ==
    analysis_counted(c, values, status_map,
                     combine_score(status_map, c.keys, c.n, c.a.combine_mode, c.a.weights),
                     combine_status(status_map, c.keys, c.n, c.a.combine_mode,
                                    c.a.weights),
                     combined_summary(combine_status(status_map, c.keys, c.n,
                                                     c.a.combine_mode, c.a.weights)))

\* lines 412-433: the status of every hazard
analysis_classified(c, values) ==
    analysis_combined(c, values,
                      [k \in Range(c.keys) |->
                          classify(values[k], c.operational[k], c.attention[k])])

\* lines 399-401: the series on their common timestamps, then the analysis
analysis_aligned(c) ==
    \* line 424: np.nanmax of an empty array raises
    IF c.n = 0 THEN Error("zero-size array to reduction operation")
    \* line 596: the direction series keeps the wind's own time axis; an aligned series
    \* of one sample is broadcast, and line 598 raises
    ELSE IF "wind" \in c.a.hazards /\ Len(c.data.direction) # c.n
    THEN IF c.n = 1 THEN Error("boolean index did not match indexed array")
         ELSE Error("operands could not be broadcast together")
    ELSE analysis_classified(c, [k \in Range(c.keys) |-> series_values(c.aligned[k])])

\* the arguments, the keys of the requested series and the aligned series
analysis_context(reg, meta, avail, data, a, keys, aligned) ==
    [reg |-> reg, meta |-> meta, avail |-> avail, data |-> data, a |-> a,
     keys |-> keys,
     aligned |-> aligned,
     n |-> Len(aligned[keys[1]]),
     operational |-> [k \in Range(keys) |-> operational_of(a.thresholds, k)],
     attention |-> [k \in Range(keys) |-> attention_of(a.thresholds, k)]]

\* lines 386-401: the requested series, aligned
analysis_of_series(reg, meta, avail, data, a, keys) ==
    IF keys = <<>> THEN Error("No supported hazards provided.")
    ELSE analysis_aligned(
             analysis_context(reg, meta, avail, data, a, keys,
                              [k \in Range(keys) |->
                                  align(data[k], common_times(data, keys))]))

\* a: the arguments, every defaulted one filled in
get_multi_risk_point(reg, meta, avail, data, a) ==
    analysis_of_series(reg, meta, avail, data, a, series_keys(a.hazards))

\* cost or 0.0
OrZero(cost) == IF cost = <<>> \/ cost[1] = Zero THEN Zero ELSE cost[1]

\* ZarrDataReader.get_wind_point_risk
get_wind_point_risk(data, a) ==
    LET speed_knots == series_values(data.wind)
        priced_hours(status) ==
            [status |-> "ok",
             time |-> series_times(data.wind),
             speed_knots |-> speed_knots,
             direction_deg |-> data.direction,
             states |-> status,
             limits |-> [operational_max_knots |-> a.operational_limit_knots,
                         attention_max_knots |-> a.attention_limit_knots],
             summary |-> [total_hours |-> Len(data.wind),
                          operational_hours |-> CountState(status, 0),
                          attention_hours |-> CountState(status, 1),
                          stop_hours |-> CountState(status, 2)],
             pricing |->
                 IF a.cost_attention_per_hour = <<>> /\ a.cost_stop_per_hour = <<>>
                 THEN <<>>
                 ELSE LET cost(attention_cost, stop_cost) ==
                              [attention_cost |-> attention_cost,
                               stop_cost |-> stop_cost,
                               total_cost |-> RAdd(attention_cost, stop_cost)]
                      IN  <<cost(RMul(R(CountState(status, 1)),
                                      OrZero(a.cost_attention_per_hour)),
                                 RMul(R(CountState(status, 2)),
                                      OrZero(a.cost_stop_per_hour)))>>]
    IN  priced_hours(classify(speed_knots, a.operational_limit_knots,
                              a.attention_limit_knots))

\* the signature's default: multiplier: float = 1.5
direct_args(r) ==
    [r EXCEPT !.multiplier = IF r.multiplier = <<>> THEN Rat(3, 2) ELSE r.multiplier[1]]

\* analysis.py run_multi_risk: multiplier=request.multiplier or 1.5
router_args(r) ==
    [r EXCEPT !.multiplier = IF r.multiplier = <<>> \/ r.multiplier[1] = Zero
                             THEN Rat(3, 2) ELSE r.multiplier[1]]

----------------------------------------------------------------------------
(* The calls the model makes: datasets and requests drawn from bounded sets. *)
(* Money is counted in thousands (asset_value 1000 is 1,000,000).            *)

\* every series of 1..len samples drawn from S, on the time axis first, first+1, ...
SeriesOver(S, len, first) ==
    UNION {{[i \in 1..k |-> [t |-> first + i - 1, v |-> f[i]]] : f \in [1..k -> S]} :
              k \in 1..len}

ConstSeries(x, k, first) == [i \in 1..k |-> [t |-> first + i - 1, v |-> x]]

WindSamples == {R(10), R(14), R(15), R(16), R(20), R(22), NaN}
WaveSamples == {R(1), R(2), R(3), R(4), R(5), NaN}

\* one sample per state under the default thresholds
WindByState == {R(10), R(16), R(22)}
WaveByState == {R(1), R(3), R(5)}

\* the wind series of the documented scenario
ScenarioWind == <<[t |-> 1, v |-> R(10)], [t |-> 2, v |-> R(14)],
                  [t |-> 3, v |-> R(16)], [t |-> 4, v |-> R(22)]>>

Pair(op, att) == ("operational_max" :> op) @@ ("attention_max" :> att)

DefaultThresholds == ("wind" :> Pair(R(15), R(20))) @@ ("wave" :> Pair(R(2), R(4)))

\* complete threshold pairs, as MultiRiskRequest carries them
WindPairs == {Pair(R(15), R(20)), Pair(R(15), R(15)), Pair(R(20), R(15)), Pair(R(0), R(16))}

\* threshold dicts only a direct caller can pass
WindPartial == {EmptyDict, "operational_max" :> R(15), "attention_max" :> R(20)}

DefaultRequest ==
    [hazards |-> {"wind"},
     thresholds |-> DefaultThresholds,
     stop_cost_per_hour |-> <<>>,
     combine_mode |-> "worst",
     weights |-> <<>>,
     multiplier |-> <<>>,
     asset_value |-> <<>>,
     attention_loss_factor |-> Rat(35, 100),
     stop_loss_factor |-> One,
     exceedance_method |-> <<"weibull">>,
     risk_load_method |-> <<"none">>,
     risk_quantile |-> Rat(95, 100),
     expense_ratio |-> Rat(15, 100),
     include_series |-> FALSE,
     asset_type |-> "generic_offshore"]

\* the direction the wind blows from at a timestamp, where the call does not give it
DirectionAt(t) ==
    CASE t = 1 -> R(10)
      [] t = 2 -> Rat(225, 10)
      [] t = 3 -> R(350)
      [] OTHER -> R(180)

\* the wind speed and the wave height at the point, and the wind direction, which is
\* on the wind's time axis and is missing exactly where the speed is (lines 143-161)
DatasetWith(wind, direction, wave) ==
    [wind |-> wind, wave |-> wave, direction |-> direction]

Dataset(wind, wave) ==
    DatasetWith(wind,
                [i \in DOMAIN wind |->
                    IF IsNaN(wind[i].v) THEN NaN ELSE DirectionAt(wind[i].t)],
                wave)

Call(entry, avail, data, r) == [pc |-> entry, avail |-> avail, ds |-> data, req |-> r]

\* one hazard, every sample and threshold pair
ClassifyCalls ==
    {Call(e, TRUE, Dataset(w, ConstSeries(R(1), 1, 1)),
          [DefaultRequest EXCEPT !.thresholds = "wind" :> th]) :
        e \in {"router", "direct"},
        w \in SeriesOver(WindSamples, MaxT, 1) \cup {ScenarioWind},
        th \in WindPairs}
    \cup
    {Call("direct", TRUE, Dataset(w, ConstSeries(R(1), 1, 1)),
          [DefaultRequest EXCEPT !.thresholds = "wind" :> th]) :
        w \in SeriesOver(WindSamples, MaxT, 1), th \in WindPartial}
    \cup
    {Call("direct", TRUE, Dataset(w, ConstSeries(R(1), 1, 1)),
          [DefaultRequest EXCEPT !.thresholds = EmptyDict]) :
        w \in SeriesOver(WindSamples, MaxT, 1)}
    \cup
    {Call("router", TRUE, Dataset(ConstSeries(R(10), 1, 1), w),
          [DefaultRequest EXCEPT !.hazards = {"wave"}]) :
        w \in SeriesOver(WaveSamples, MaxT, 1)}

WeightChoices ==
    {<<>>,
     ("wind" :> R(1)) @@ ("wave" :> R(1)),
     "wind" :> R(3),
     ("wind" :> R(3)) @@ ("wave" :> R(1)),
     ("wind" :> R(0)) @@ ("wave" :> R(3)),
     ("wind" :> R(-2)) @@ ("wave" :> R(1))}

MultiplierChoices == {<<>>, <<R(0)>>, <<Rat(1, 2)>>, <<R(1)>>, <<Rat(3, 2)>>, <<R(3)>>}

\* combine_mode with the one argument each mode reads
ModeChoices ==
    {[combine_mode |-> m, weights |-> <<>>, multiplier |-> <<>>] : m \in {"worst", "max"}}
    \cup {[combine_mode |-> "weighted", weights |-> w, multiplier |-> <<>>] :
             w \in WeightChoices}
    \cup {[combine_mode |-> "multiplier", weights |-> <<>>, multiplier |-> m] :
             m \in MultiplierChoices}

\* wind and wave on one time axis
AlignedDatasets ==
    UNION {{Dataset([i \in 1..k |-> [t |-> i, v |-> f[i]]],
                    [i \in 1..k |-> [t |-> i, v |-> g[i]]]) :
               f \in [1..k -> WindByState], g \in [1..k -> WaveByState]} :
              k \in 1..MaxT}

\* the router and the engine differ in the multiplier only: the other modes are
\* called through the router
CombineCalls ==
    {Call("router", TRUE, d,
          [DefaultRequest EXCEPT !.hazards = {"wind", "wave"},
                                 !.combine_mode = m.combine_mode,
                                 !.weights = m.weights,
                                 !.multiplier = m.multiplier,
                                 !.stop_cost_per_hour = c]) :
        d \in AlignedDatasets, m \in ModeChoices, c \in {<<>>, <<R(100)>>}}
    \cup
    {Call("direct", TRUE, d,
          [DefaultRequest EXCEPT !.hazards = {"wind", "wave"},
                                 !.combine_mode = "multiplier",
                                 !.multiplier = m]) :
        d \in AlignedDatasets, m \in MultiplierChoices}

\* (attention_loss_factor, stop_loss_factor) as the caller supplies them
FactorChoices ==
    {<<Rat(35, 100), One>>, <<Rat(35, 100), R(2)>>, <<Rat(1, 2), Rat(1, 5)>>,
     <<Rat(-1, 2), One>>, <<Rat(3, 2), One>>, <<Zero, Rat(-1, 2)>>}

AssetTypeChoices == {"generic_offshore", "", "fpso", "subsea_pipeline", "unknown_asset"}

PriceWind == {R(10), R(16), R(22), NaN}

\* every pair of loss factors in the discrete model, with and without an asset value;
\* every asset type with the curve service present and absent
PricingCalls ==
    {Call("router", TRUE,
          Dataset(w, ConstSeries(R(3), Len(w), 1)),
          [DefaultRequest EXCEPT !.hazards = h,
                                 !.asset_value = v,
                                 !.attention_loss_factor = f[1],
                                 !.stop_loss_factor = f[2]]) :
        w \in SeriesOver(PriceWind, MaxT, 1) \cup {ScenarioWind},
        h \in {{"wind"}, {"wind", "wave"}},
        v \in {<<>>, <<R(0)>>, <<R(1000)>>},
        f \in FactorChoices}
    \cup
    {Call("router", avail,
          Dataset(w, ConstSeries(R(3), Len(w), 1)),
          [DefaultRequest EXCEPT !.hazards = h,
                                 !.asset_value = <<R(1000)>>,
                                 !.stop_loss_factor = f,
                                 !.asset_type = t]) :
        avail \in BOOLEAN,
        w \in SeriesOver(PriceWind, MaxT, 1) \cup {ScenarioWind},
        h \in {{"wind"}, {"wind", "wave"}},
        f \in {One, R(2)},
        t \in AssetTypeChoices}

\* no supported hazard; series without a common timestamp; a wave series that is
\* shorter; an empty time window
FailingCalls ==
    {Call(e, TRUE, d, [DefaultRequest EXCEPT !.hazards = h]) :
        e \in {"router", "direct"},
        d \in {Dataset(ConstSeries(R(10), 1, 1), ConstSeries(R(1), 1, 1)),
               Dataset(<<>>, <<>>)},
        h \in {{}, {"flood"}, {"flood", "Wind"}}}
    \cup
    {Call("router", TRUE, Dataset(ConstSeries(R(16), k, 1), ConstSeries(R(3), j, first)),
          [DefaultRequest EXCEPT !.hazards = h]) :
        k \in 1..MaxT, j \in 1..MaxT, first \in 1..(MaxT + 1),
        h \in {{"wave"}, {"wind", "wave"}}}
    \cup
    \* a time window that selects no timestamp at all
    {Call("router", TRUE, Dataset(<<>>, <<>>), [DefaultRequest EXCEPT !.hazards = h]) :
        h \in {{"wind"}, {"wave"}, {"wind", "wave"}}}

\* exceedance_method as a caller may give it (None only by a direct call)
ExceedanceMethods ==
    {<<"weibull">>, <<"hazen">>, <<"gringorten">>, <<"HAZEN">>, <<"Gringorten">>,
     <<"cunnane">>, <<"">>}

\* every sample, every plotting position, the raw series asked for
DistributionCalls ==
    {Call("router", TRUE, Dataset(w, ConstSeries(R(1), 1, 1)),
          [DefaultRequest EXCEPT !.exceedance_method = m, !.include_series = TRUE]) :
        w \in SeriesOver(WindSamples, MaxT, 1) \cup {ScenarioWind},
        m \in ExceedanceMethods}
    \cup
    {Call("direct", TRUE, Dataset(w, ConstSeries(R(1), 1, 1)),
          [DefaultRequest EXCEPT !.exceedance_method = <<>>]) :
        w \in SeriesOver(WindSamples, MaxT, 1)}

RiskLoadMethods ==
    {<<"none">>, <<"var">>, <<"tvar">>, <<"stdev">>, <<"VAR">>, <<"StDev">>, <<"">>,
     <<"other">>}

QuantileChoices == {Rat(1, 10), Rat(1, 2), Rat(95, 100), Rat(999, 1000), R(1)}

ExpenseChoices == {Rat(-1, 10), Zero, Rat(15, 100)}

\* (risk_quantile, expense_ratio): every quantile, and every expense ratio
QuantileExpenseChoices ==
    {<<q, Rat(15, 100)>> : q \in QuantileChoices}
    \cup {<<Rat(95, 100), e>> : e \in ExpenseChoices}
    \cup {<<Rat(1, 2), Zero>>}

\* the premium of a wind series under every risk-load method: every quantile and
\* expense ratio in the discrete loss model, the defaults in a continuous one
PremiumCalls ==
    {Call("router", TRUE, Dataset(w, ConstSeries(R(3), Len(w), 1)),
          [DefaultRequest EXCEPT !.asset_value = <<R(100)>>,
                                 !.asset_type = tqe[1],
                                 !.risk_load_method = m,
                                 !.risk_quantile = tqe[2][1],
                                 !.expense_ratio = tqe[2][2]]) :
        w \in SeriesOver(PriceWind, MaxT, 1) \cup {ScenarioWind},
        m \in RiskLoadMethods,
        tqe \in ({"generic_offshore"} \X QuantileExpenseChoices)
                \cup {<<"fpso", <<Rat(95, 100), Rat(15, 100)>>>>}}
    \cup
    {Call("direct", TRUE, Dataset(w, ConstSeries(R(3), Len(w), 1)),
          [DefaultRequest EXCEPT !.asset_value = <<R(100)>>,
                                 !.risk_load_method = <<>>]) :
        w \in SeriesOver(PriceWind, MaxT, 1)}

\* (speed, direction) of a wind sample: a direction in [0, 360), on and off the sector
\* edges, and the missing sample
RoseSamples ==
    ({R(10), R(16), R(22)} \X {Zero, Rat(225, 10), R(100), Rat(3375, 10), R(359)})
    \cup {<<NaN, NaN>>}

\* the thresholds of a request of the wind rose: complete pairs, and the partial and
\* missing ones of a direct caller
RoseThresholds ==
    {"wind" :> th : th \in WindPairs \cup WindPartial} \cup {EmptyDict, DefaultThresholds}

\* wind alone and wind with a wave series that covers it, every speed and direction
RoseCalls ==
    {Call("direct", TRUE,
          DatasetWith([i \in DOMAIN f |-> [t |-> i, v |-> f[i][1]]],
                      [i \in DOMAIN f |-> f[i][2]],
                      ConstSeries(R(1), MaxT + 1, 1)),
          [DefaultRequest EXCEPT !.hazards = h, !.thresholds = th,
                                 !.include_series = (h = {"wind"})]) :
        f \in UNION {[1..k -> RoseSamples] : k \in 1..MaxT},
        h \in {{"wind"}, {"wind", "wave"}},
        th \in RoseThresholds}

\* the wind-risk analysis of every wind series, the empty one included
WindRiskCalls ==
    {[ds |-> Dataset(w, <<>>),
      creq |-> [operational_limit_knots |-> l[1],
                attention_limit_knots |-> l[2],
                cost_attention_per_hour |-> c[1],
                cost_stop_per_hour |-> c[2],
                asset_type |-> "generic_offshore"]] :
        w \in SeriesOver(WindSamples, MaxT, 1) \cup {<<>>, ScenarioWind},
        l \in {<<R(15), R(20)>>, <<R(15), R(15)>>, <<R(20), R(15)>>},
        c \in {<<<<>>, <<>>>>, <<<<R(50)>>, <<>>>>, <<<<>>, <<R(100)>>>>,
               <<<<R(50)>>, <<Zero>>>>}}

\* the families of calls, one after the other
Calls ==
    <<ClassifyCalls, CombineCalls, PricingCalls, FailingCalls, DistributionCalls,
      PremiumCalls, RoseCalls>>

\* the largest n handed to _exceedance_probs directly
MaxN == 6

ExceedCalls ==
    {[n |-> n, method |-> m] : n \in (-1)..MaxN, m \in ExceedanceMethods \cup {<<>>}}

NoResponse == [status |-> "none"]
NoCurveCall == [haz_type |-> "", intensity |-> <<>>, asset_type |-> ""]

Init ==
    /\ registry = build_all
    /\ asset_types = ASSET_TYPES
    /\ resp = NoResponse
    /\ \/ /\ ereq = <<>>
          /\ creq = NoCurveCall
          /\ \E i \in DOMAIN Calls : \E c \in Calls[i] :
              /\ pc = c.pc
              /\ service_available = c.avail
              /\ ds = c.ds
              /\ req = c.req
       \/ /\ ereq \in {<<c>> : c \in ExceedCalls}
          /\ creq = NoCurveCall
          /\ pc = "exceed"
          /\ service_available = TRUE
          /\ ds = Dataset(<<>>, <<>>)
          /\ req = DefaultRequest
       \/ /\ ereq = <<>>
          /\ \E c \in WindRiskCalls : creq = c.creq /\ ds = c.ds
          /\ pc = "wind_risk"
          /\ service_available = TRUE
          /\ req = DefaultRequest

\* POST /multi-risk: the router fills the multiplier and calls the engine;
\* an exception becomes an HTTP 500 with the message as detail
run_multi_risk ==
    /\ pc = "router"
    /\ resp' = get_multi_risk_point(registry, asset_types, service_available, ds,
                                     router_args(req))
    /\ pc' = "done"
    /\ UNCHANGED <<registry, asset_types, service_available, ds, req, creq, ereq>>

\* a caller of the engine itself
call_get_multi_risk_point ==
    /\ pc = "direct"
    /\ resp' = get_multi_risk_point(registry, asset_types, service_available, ds,
                                     direct_args(req))
    /\ pc' = "done"
    /\ UNCHANGED <<registry, asset_types, service_available, ds, req, creq, ereq>>

\* a caller of ZarrDataReader._exceedance_probs
call_exceedance_probs ==
    /\ pc = "exceed"
    /\ resp' = [status |-> "ok", probs |-> exceedance_probs(ereq[1].n, ereq[1].method)]
    /\ pc' = "done"
    /\ UNCHANGED <<registry, asset_types, service_available, ds, req, creq, ereq>>

\* POST /wind-risk: the router passes the request on as it is
run_wind_risk ==
    /\ pc = "wind_risk"
    /\ resp' = get_wind_point_risk(ds, creq)
    /\ pc' = "done"
    /\ UNCHANGED <<registry, asset_types, service_available, ds, req, creq, ereq>>

Next ==
    \/ run_multi_risk
    \/ call_get_multi_risk_point
    \/ call_exceedance_probs
    \/ run_wind_risk

Spec == Init /\ [][Next]_vars

----------------------------------------------------------------------------
(* The curve store called on its own (GET /vulnerability-curve evaluates it *)
(* on a grid; any caller may pass any array).                               *)

CurveSamples ==
    {R(-1), R(0), Rat(195, 100), R(3), Rat(1495, 100), R(15), Rat(1995, 100), R(20),
     R(30), R(100), R(200), NaN}

ArraysOver(S, len) == UNION {[1..k -> S] : k \in 1..len}

CurveHazards == {HAZ_WIND, HAZ_WAVE, "FL"}

CurveAssets ==
    {"fpso", "fixed_platform", "support_vessel", "subsea_pipeline", "generic_offshore",
     "unknown_asset", ""}

CurveCalls ==
    {[haz_type |-> h, intensity |-> x, asset_type |-> t] :
        h \in CurveHazards, x \in ArraysOver(CurveSamples, MaxArr), t \in CurveAssets}

\* the calls of get_curve_points and describe_curve: no intensity is passed
StoreCalls ==
    {[haz_type |-> h, intensity |-> <<>>, asset_type |-> t] :
        h \in CurveHazards, t \in CurveAssets}

InitCurve ==
    /\ registry = build_all
    /\ asset_types = ASSET_TYPES
    /\ service_available = TRUE
    /\ ds = Dataset(<<>>, <<>>)
    /\ req = DefaultRequest
    /\ resp = NoResponse
    /\ ereq = <<>>
    /\ \/ pc = "curve" /\ creq \in CurveCalls
       \/ pc \in {"points", "describe"} /\ creq \in StoreCalls

call_calc_damage_ratio ==
    /\ pc = "curve"
    /\ resp' = [status |-> "ok",
                ratio |-> calc_damage_ratio(registry, creq.haz_type, creq.intensity,
                                            creq.asset_type)]
    /\ pc' = "done"
    /\ UNCHANGED <<registry, asset_types, service_available, ds, req, creq, ereq>>

call_get_curve_points ==
    /\ pc = "points"
    /\ resp' = [status |-> "ok",
                points |-> get_curve_points(registry, creq.haz_type, creq.asset_type)]
    /\ pc' = "done"
    /\ UNCHANGED <<registry, asset_types, service_available, ds, req, creq, ereq>>

call_describe_curve ==
    /\ pc = "describe"
    /\ resp' = [status |-> "ok",
                curve |-> describe_curve(registry, asset_types, creq.haz_type,
                                        creq.asset_type)]
    /\ pc' = "done"
    /\ UNCHANGED <<registry, asset_types, service_available, ds, req, creq, ereq>>

NextCurve == call_calc_damage_ratio \/ call_get_curve_points \/ call_describe_curve

SpecCurve == InitCurve /\ [][NextCurve]_vars

----------------------------------------------------------------------------
(* The service from its construction on, with two clients whose requests are *)
(* served concurrently. pc[0] is the import of climada_impact, pc[c] the     *)
(* request of client c; creq[c] is its call and resp[c] what it got.         *)

Clients == {1, 2}

ServiceOps ==
    {"calc_damage_ratio", "get_curve_points", "describe_curve",
     "get_available_asset_types", "get_multi_risk_point"}

ServiceCalls ==
    {[op |-> o, haz_type |-> HAZ_WIND, intensity |-> <<R(15), R(30)>>, asset_type |-> t] :
        o \in ServiceOps, t \in {"fpso", "unknown_asset"}}

\* the dataset and the request of a multi-risk analysis of the service's clients
ServiceDataset == Dataset(ScenarioWind, ConstSeries(R(3), 4, 1))

ServiceRequest(asset_type) ==
    [DefaultRequest EXCEPT !.asset_value = <<R(1000)>>, !.asset_type = asset_type]

\* what an operation returns from a catalogue and the metadata
serve(call, reg, meta) ==
    CASE call.op = "calc_damage_ratio" ->
            [status |-> "ok",
             ratio |-> calc_damage_ratio(reg, call.haz_type, call.intensity,
                                         call.asset_type)]
      [] call.op = "get_curve_points" ->
            [status |-> "ok",
             points |-> get_curve_points(reg, call.haz_type, call.asset_type)]
      [] call.op = "describe_curve" ->
            [status |-> "ok",
             curve |-> describe_curve(reg, meta, call.haz_type, call.asset_type)]
      [] call.op = "get_available_asset_types" ->
            [status |-> "ok", asset_types |-> get_available_asset_types(meta)]
      [] OTHER ->
            get_multi_risk_point(reg, meta, TRUE, ServiceDataset,
                                 router_args(ServiceRequest(call.asset_type)))

InitService ==
    /\ registry = EmptyDict
    /\ asset_types = ASSET_TYPES
    /\ service_available = TRUE
    /\ ds = ServiceDataset
    /\ req = DefaultRequest
    /\ ereq = <<>>
    /\ pc = [i \in {0} \cup Clients |-> IF i = 0 THEN "building" ELSE "idle"]
    /\ creq \in [Clients -> ServiceCalls]
    /\ resp = [c \in Clients |-> NoResponse]

\* OffshoreImpactFunctions.__init__: one assignment of _build_all; after the last one
\* the constructor returns and the module is imported
construct ==
    /\ pc[0] = "building"
    /\ registry' = build_next(registry)
    /\ pc' = [pc EXCEPT ![0] = IF Cardinality(DOMAIN registry') = Len(BuildOrder)
                               THEN "serving" ELSE "building"]
    /\ UNCHANGED <<asset_types, service_available, ds, req, creq, ereq, resp>>

\* a request starts once the module is imported: the lookup in the catalogue
lookup(c) ==
    /\ pc[0] = "serving"
    /\ pc[c] = "idle"
    /\ registry' = IF creq[c].op = "get_available_asset_types" THEN registry
                   ELSE registry_after_get(registry, creq[c].asset_type)
    /\ resp' = [resp EXCEPT ![c] = [status |-> "running"]]
    /\ pc' = [pc EXCEPT ![c] = "running"]
    /\ UNCHANGED <<asset_types, service_available, ds, req, creq, ereq>>

\* the request computes its result and returns it
return(c) ==
    /\ pc[c] = "running"
    /\ resp' = [resp EXCEPT ![c] = serve(creq[c], registry, asset_types)]
    /\ pc' = [pc EXCEPT ![c] = "done"]
    /\ UNCHANGED <<registry, asset_types, service_available, ds, req, creq, ereq>>

NextService ==
    \/ construct
    \/ \E c \in Clients : lookup(c)
    \/ \E c \in Clients : return(c)

SpecService == InitService /\ [][NextService]_vars

----------------------------------------------------------------------------
(* Properties of the curve store, checked under SpecCurve *)

CurveDone == pc = "done" /\ creq # NoCurveCall /\ "ratio" \in DOMAIN resp

PointsDone == pc = "done" /\ creq # NoCurveCall /\ "points" \in DOMAIN resp

DescribeDone == pc = "done" /\ creq # NoCurveCall /\ "curve" \in DOMAIN resp

CurveOf == get(registry, creq.asset_type, creq.haz_type)

\* C5: for every registered curve calc_damage_ratio is exactly 0 below the first
\* calibration intensity, exactly the last MDD*PAA above the last one, and the
\* linear interpolation of MDD*PAA between two calibration points.
C5_FlatOutsideLinearInside ==
    (CurveDone /\ CurveOf # None) =>
        LET xp == CurveOf.intensity
            mdr == mdr_curve(CurveOf)
            last == Len(xp)
        IN  \A i \in DOMAIN creq.intensity :
                LET x == creq.intensity[i]
                    y == resp.ratio[i]
                IN  /\ RLt(x, xp[1]) => y = Zero
                    /\ RGt(x, xp[last]) => y = mdr[last]
                    /\ \A k \in 1..(last - 1) :
                          (RLe(xp[k], x) /\ RLe(x, xp[k + 1])) =>
                              RMul(RSub(y, mdr[k]), RSub(xp[k + 1], xp[k]))
                                  = RMul(RSub(mdr[k + 1], mdr[k]), RSub(x, xp[k]))

\* C5 happens: the FPSO wave curve at 3 m (between 2.5 and 3.5) and at 200 (beyond 12)
C5_Witness ==
    /\ CurveDone
    /\ creq.haz_type = HAZ_WAVE /\ creq.asset_type = "fpso"
    /\ creq.intensity = <<R(3), R(200)>>
    /\ resp.ratio = <<Rat(43, 1000), Rat(93, 100)>>

\* C6: for every hazard code, asset type and intensity array calc_damage_ratio returns
\* an array of the input's shape whose every value lies in [0, 1].
C6_RatioInUnitInterval ==
    CurveDone =>
        /\ Len(resp.ratio) = Len(creq.intensity)
        /\ \A i \in DOMAIN resp.ratio : RLe(Zero, resp.ratio[i]) /\ RLe(resp.ratio[i], One)

\* the discrete loss factor with attention factor 0.35 and stop factor 1.0
DiscreteFactor(x, operational, attention) ==
    IF RLt(x, operational) THEN Zero
    ELSE IF RLt(x, attention) THEN Rat(35, 100) ELSE One

\* C7: the generic_offshore step curves reproduce the discrete 3-state model at every
\* intensity: wind 0 below 15, 0.35 in [15, 20), 1.0 from 20; wave with 2 m and 4 m.
C7_StepCurveIsDiscreteModel ==
    (CurveDone /\ creq.asset_type = "generic_offshore"
               /\ creq.haz_type \in {HAZ_WIND, HAZ_WAVE}) =>
        \A i \in DOMAIN creq.intensity :
            LET x == creq.intensity[i]
            IN  (~IsNaN(x) /\ RGe(x, Zero)) =>
                    resp.ratio[i] = IF creq.haz_type = HAZ_WIND
                                    THEN DiscreteFactor(x, R(15), R(20))
                                    ELSE DiscreteFactor(x, R(2), R(4))

----------------------------------------------------------------------------
(* Properties of the multi-risk analysis, checked under Spec *)

RiskDone == pc = "done" /\ creq = NoCurveCall /\ ereq = <<>> /\ resp.status = "ok"

Hazards == Range(resp.keys)

\* C1: with attention_max >= operational_max a sample x is state 2 if x >= attention_max,
\* state 1 if operational_max <= x < attention_max and state 0 otherwise; no sample is
\* state 1 when the two thresholds are equal; wind [10,14,16,22] with thresholds (15,20)
\* gives states [0,0,1,2].
C1_Classification ==
    RiskDone =>
        \A k \in Hazards :
            LET operational == resp.hazards[k].operational_max
                attention == resp.hazards[k].attention_max
                x == resp.values[k]
                s == resp.status_map[k]
            IN  /\ (k \in DOMAIN req.thresholds
                    /\ DOMAIN req.thresholds[k] = {"operational_max", "attention_max"}) =>
                        /\ operational = req.thresholds[k]["operational_max"]
                        /\ attention = req.thresholds[k]["attention_max"]
                /\ RGe(attention, operational) =>
                    /\ Len(s) = Len(x)
                    /\ \A i \in DOMAIN x :
                          s[i] = IF RGe(x[i], attention) THEN 2
                                 ELSE IF RGe(x[i], operational) /\ RLt(x[i], attention) THEN 1
                                 ELSE 0
                    /\ operational = attention => \A i \in DOMAIN s : s[i] # 1
                    /\ (x = <<R(10), R(14), R(16), R(22)>>
                        /\ operational = R(15) /\ attention = R(20)) => s = <<0, 0, 1, 2>>

\* C1 happens: the documented wind scenario has been classified
C1_Witness ==
    /\ RiskDone
    /\ req.thresholds = "wind" :> Pair(R(15), R(20))
    /\ resp.values["wind"] = <<R(10), R(14), R(16), R(22)>>
    /\ resp.status_map["wind"] = <<0, 0, 1, 2>>

\* C2: in every combine mode other than 'weighted' the combined state at each time index
\* is the maximum of the per-hazard states there, and the score equals the combined state.
C2_WorstIsMaximum ==
    (RiskDone /\ req.combine_mode # "weighted") =>
        /\ Len(resp.combined_status) = Len(resp.time)
        /\ Len(resp.score) = Len(resp.time)
        /\ \A i \in DOMAIN resp.combined_status :
              /\ \E k \in Hazards : resp.status_map[k][i] = resp.combined_status[i]
              /\ \A k \in Hazards : resp.status_map[k][i] <= resp.combined_status[i]
              /\ resp.score[i] = R(resp.combined_status[i])

\* C2 happens: wave stops while wind is operational, and the combined state is stop
C2_Witness ==
    /\ RiskDone /\ req.combine_mode = "worst"
    /\ resp.keys = <<"wind", "wave">>
    /\ \E i \in DOMAIN resp.combined_status :
          /\ resp.status_map["wind"][i] = 0
          /\ resp.status_map["wave"][i] = 2
          /\ resp.combined_status[i] = 2

\* the weight the claim gives a hazard: 1 when missing or not positive
ClaimedWeight(k) ==
    IF k \notin DOMAIN req.weights THEN One
    ELSE IF RLe(req.weights[k], Zero) THEN One ELSE req.weights[k]

\* C3: in mode 'weighted' the score is the weighted average of the state codes (a missing
\* or non-positive weight counts 1.0); the combined state is 2 if score >= 1.5, 1 if
\* 0.5 <= score < 1.5, else 0; two hazards of equal weight in states (0,2) combine to 1.
C3_WeightedAverage ==
    (RiskDone /\ req.combine_mode = "weighted") =>
        \A i \in DOMAIN resp.time :
            LET num == RSum([j \in DOMAIN resp.keys |->
                                RMul(ClaimedWeight(resp.keys[j]),
                                     R(resp.status_map[resp.keys[j]][i]))])
                den == RSum([j \in DOMAIN resp.keys |-> ClaimedWeight(resp.keys[j])])
                sc == resp.score[i]
            IN  /\ RMul(sc, den) = num
                /\ resp.combined_status[i] =
                       IF RGe(sc, Rat(3, 2)) THEN 2
                       ELSE IF RGe(sc, Rat(1, 2)) THEN 1 ELSE 0
                /\ (resp.keys = <<"wind", "wave">>
                    /\ ClaimedWeight("wind") = ClaimedWeight("wave")
                    /\ {resp.status_map["wind"][i], resp.status_map["wave"][i]} = {0, 2}) =>
                        resp.combined_status[i] = 1

\* C3 happens: equal weights, wind operational and wave stopped, combined state 1
C3_Witness ==
    /\ RiskDone /\ req.combine_mode = "weighted"
    /\ req.weights = ("wind" :> R(1)) @@ ("wave" :> R(1))
    /\ \E i \in DOMAIN resp.time :
          /\ resp.status_map["wind"][i] = 0
          /\ resp.status_map["wave"][i] = 2
          /\ resp.score[i] = One
          /\ resp.combined_status[i] = 1

\* the multiplier the caller asked for: the request's, or the documented default 1.5
RequestedMultiplier == IF req.multiplier = <<>> THEN Rat(3, 2) ELSE req.multiplier[1]

\* C4: in mode 'multiplier' the combined series is the worst-case series and
\* effective_stop_hours = stop_hours + N*(m-1), N the steps where every hazard is in
\* state >= 1 and m the requested multiplier floored at 1.0, so a requested multiplier
\* <= 1 (0 included) leaves the true stop-hour count; other modes report stop_hours.
C4_EffectiveStopHours ==
    RiskDone =>
        LET stop == R(resp.combined.stop_hours)
            N == Cardinality({i \in DOMAIN resp.time :
                                 \A k \in Hazards : resp.status_map[k][i] >= 1})
            m == RMax(RequestedMultiplier, One)
        IN  IF req.combine_mode = "multiplier"
            THEN /\ \A i \in DOMAIN resp.combined_status :
                       \A k \in Hazards : resp.status_map[k][i] <= resp.combined_status[i]
                 /\ resp.effective_stop_hours = RAdd(stop, RMul(R(N), RSub(m, One)))
                 /\ RLe(RequestedMultiplier, One) => resp.effective_stop_hours = stop
            ELSE resp.effective_stop_hours = stop

\* the series the analysis priced: "combined" and each hazard
PricedIds ==
    (IF resp.pricing_models = <<>> THEN {} ELSE {"combined"})
    \cup DOMAIN resp.hazard_pricing_models

PricingOf(id) ==
    IF id = "combined" THEN resp.pricing_models[1] ELSE resp.hazard_pricing_models[id]

StatesOf(id) == IF id = "combined" THEN resp.combined_status ELSE resp.status_map[id]

\* the selection rule: the curve service is available and asset_type is neither
\* 'generic_offshore' nor empty
ContinuousSelected == service_available /\ req.asset_type \notin {"generic_offshore", ""}

\* C8: the loss-per-step source is selected by the same rule for the per-hazard pricing
\* and for the combined-series pricing: continuous exactly when the curve service is
\* available and asset_type is neither 'generic_offshore' nor empty, discrete otherwise.
C8_SameSelectionRule ==
    RiskDone => \A id \in PricedIds : PricingOf(id).continuous = ContinuousSelected

\* C9: in the discrete model the loss factor is stop_loss_factor floored at
\* attention_loss_factor in state 2, attention_loss_factor in state 1 and 0 in state 0,
\* each clamped to [0,1] whatever the caller supplies, so loss_per_step never exceeds
\* asset_value; asset_value 1,000,000 with factors 0.35/1.0 and states [0,0,1,2] loses
\* [0, 0, 350000, 1000000].
C9_DiscreteFactorsClamped ==
    RiskDone =>
        \A id \in PricedIds :
            LET p == PricingOf(id)
                s == StatesOf(id)
                att == Clip(req.attention_loss_factor, Zero, One)
                stop == Clip(RMax(req.stop_loss_factor, att), Zero, One)
            IN  ~p.continuous =>
                    /\ \A i \in DOMAIN s :
                          /\ p.loss_per_step[i] =
                                 RMul(p.asset_value,
                                      IF s[i] = 2 THEN stop ELSE IF s[i] = 1 THEN att ELSE Zero)
                          /\ RLe(p.loss_per_step[i], p.asset_value)
                    /\ (p.asset_value = R(1000) /\ s = <<0, 0, 1, 2>>
                        /\ req.attention_loss_factor = Rat(35, 100)
                        /\ req.stop_loss_factor = One) =>
                            p.loss_per_step = <<R(0), R(0), R(350), R(1000)>>

AllFinite(s) == \A i \in DOMAIN s : ~IsNaN(s[i])

\* C10: for every priced series annualization_factor = 8760 / max(total_steps, 1),
\* AAL = mean(loss_per_step) * annualization_factor and PML = max(loss_per_step) *
\* annualization_factor; loss_per_step [0, 0, 350000, 1000000] over 4 steps gives the
\* factor 2190 and AAL 739,125,000.
C10_Annualization ==
    RiskDone =>
        \A id \in PricedIds :
            LET p == PricingOf(id)
                n == Len(StatesOf(id))
                loss == p.loss_per_step
            IN  /\ Len(loss) = n
                /\ RMul(p.annualization_factor, R(IF n >= 1 THEN n ELSE 1)) = R(8760)
                /\ AllFinite(loss) =>
                    /\ RMul(p.aal, R(n)) = RMul(RSum(loss), p.annualization_factor)
                    /\ \E i \in DOMAIN loss :
                          /\ \A j \in DOMAIN loss : RLe(loss[j], loss[i])
                          /\ p.pml = RMul(loss[i], p.annualization_factor)
                /\ loss = <<R(0), R(0), R(350), R(1000)>> =>
                    /\ p.annualization_factor = R(2190)
                    /\ p.aal = R(739125)

\* C10 happens: the documented scenario has been priced
C10_Witness ==
    /\ RiskDone
    /\ resp.pricing_models # <<>>
    /\ resp.pricing_models[1].loss_per_step = <<R(0), R(0), R(350), R(1000)>>
    /\ resp.pricing_models[1].annualization_factor = R(2190)
    /\ resp.pricing_models[1].aal = R(739125)
    /\ resp.pricing_models[1].pml = R(2190000)

----------------------------------------------------------------------------
(* Properties of the risk measures, checked under Spec *)

NonNegative(s) == \A i \in DOMAIN s : RGe(s[i], Zero)

\* a series that is not constant
NonDegenerate(s) == \E i, j \in DOMAIN s : s[i] # s[j]

\* C11 as stated: for any non-degenerate non-negative loss series and any risk quantile
\* >= 0.5, the pricing result satisfies PML >= VaR >= AAL.
C11_PmlVarAal ==
    RiskDone =>
        \A id \in PricedIds :
            LET p == PricingOf(id)
            IN  (NonNegative(p.loss_per_step) /\ NonDegenerate(p.loss_per_step)
                 /\ RGe(req.risk_quantile, Rat(1, 2))) =>
                    RGe(p.pml, p.var) /\ RGe(p.var, p.aal)

\* C11 amended: for any non-negative loss series and any risk quantile the pricing
\* result satisfies PML >= VaR and PML >= AAL (VaR may lie below AAL).
C11_PmlBoundsVarAndAal ==
    RiskDone =>
        \A id \in PricedIds :
            LET p == PricingOf(id)
            IN  NonNegative(p.loss_per_step) =>
                    RGe(p.pml, p.var) /\ RGe(p.pml, p.aal)

\* C11 happens: a non-degenerate loss series priced at 0.95 with PML > VaR > AAL
C11_Witness ==
    /\ RiskDone
    /\ req.risk_quantile = Rat(95, 100)
    /\ resp.pricing_models # <<>>
    /\ resp.pricing_models[1].loss_per_step = <<R(0), R(100)>>
    /\ RGt(resp.pricing_models[1].pml, resp.pricing_models[1].var)
    /\ RGt(resp.pricing_models[1].var, resp.pricing_models[1].aal)

\* the losses of a series that reach the threshold
TailAt(loss, threshold) ==
    LET reaches(x) == RGe(x, threshold)
    IN  SelectSeq(loss, reaches)

\* C12: TVaR at quantile q is annualization_factor times the mean of all loss values
\* >= the q-quantile of loss_per_step (the VaR value when that tail set is empty); so
\* for every non-empty finite loss series VaR <= TVaR <= PML.
C12_TailMean ==
    RiskDone =>
        \A id \in PricedIds :
            LET p == PricingOf(id)
                loss == p.loss_per_step
                threshold == RDiv(p.var, p.annualization_factor)
                tail == TailAt(loss, threshold)
            IN  /\ Len(tail) > 0 =>
                       RMul(p.tvar, R(Len(tail))) = RMul(RSum(tail), p.annualization_factor)
                /\ Len(tail) = 0 => p.tvar = p.var
                /\ (Len(loss) > 0 /\ AllFinite(loss)) =>
                       RLe(p.var, p.tvar) /\ RLe(p.tvar, p.pml)

\* C12 happens: the tail of [0, 100] at 0.95 is [100], so TVaR lies above VaR
C12_Witness ==
    /\ RiskDone
    /\ resp.pricing_models # <<>>
    /\ resp.pricing_models[1].loss_per_step = <<R(0), R(100)>>
    /\ resp.pricing_models[1].risk_quantile = Rat(95, 100)
    /\ resp.pricing_models[1].var = R(416100)
    /\ resp.pricing_models[1].tvar = R(438000)

\* the k-th smallest value of a finite series
OrderStat(s, k) ==
    CHOOSE v \in Range(s) :
        /\ Cardinality({i \in DOMAIN s : RLt(s[i], v)}) < k
        /\ k <= Cardinality({i \in DOMAIN s : RLe(s[i], v)})

\* the q-quantile of a finite non-empty series by linear interpolation of its order
\* statistics at the position 1 + q*(n-1)
LinearQuantile(s, q) ==
    LET h == RMul(q, R(Len(s) - 1))
        j == h.n \div h.d
    IN  IF j + 1 >= Len(s) THEN OrderStat(s, Len(s))
        ELSE RAdd(OrderStat(s, j + 1),
                  RMul(RSub(h, R(j)), RSub(OrderStat(s, j + 2), OrderStat(s, j + 1))))

\* C13: the quantile used for VaR and TVaR is the caller's risk_quantile clamped to
\* [0.5, 0.999] (below 0.5 priced at 0.5, above 0.999 at 0.999), the clamped value is
\* reported as risk_quantile, and VaR = quantile(loss_per_step, q) * annualization_factor.
C13_QuantileClamped ==
    RiskDone =>
        \A id \in PricedIds :
            LET p == PricingOf(id)
                q == IF RLt(req.risk_quantile, Rat(1, 2)) THEN Rat(1, 2)
                     ELSE IF RGt(req.risk_quantile, Rat(999, 1000)) THEN Rat(999, 1000)
                     ELSE req.risk_quantile
            IN  /\ p.risk_quantile = q
                /\ (Len(p.loss_per_step) > 0 /\ AllFinite(p.loss_per_step)) =>
                       p.var = RMul(LinearQuantile(p.loss_per_step, q), p.annualization_factor)

\* C13 happens: a request at 0.1 is priced at 0.5 and one at 1 at 0.999
C13_Witness ==
    /\ RiskDone
    /\ req.risk_quantile = R(1)
    /\ resp.pricing_models # <<>>
    /\ resp.pricing_models[1].loss_per_step = <<R(0), R(100)>>
    /\ resp.pricing_models[1].risk_quantile = Rat(999, 1000)
    /\ resp.pricing_models[1].var = RMul(Rat(999, 10), R(4380))

\* max(x, 0) of a number
AtLeastZero(x) == IF RGt(x, Zero) THEN x ELSE Zero

\* the population variance of a finite series: mean of squares minus squared mean
Variance(s) ==
    RSub(Mean([i \in DOMAIN s |-> RMul(s[i], s[i])]), RMul(Mean(s), Mean(s)))

\* a number rat + sqrt(sq) that is at least x
SurdAtLeast(v, x) == RGe(v.rat, x) /\ RGe(v.sq, Zero)

\* C14: risk_load is max(VaR-AAL,0) for 'var', max(TVaR-AAL,0) for 'tvar',
\* stdev(loss_per_step)*sqrt(annualization_factor) for 'stdev' and 0 for 'none';
\* pure_premium = AAL and technical_premium = pure_premium*(1+max(expense_ratio,0)) +
\* risk_load, so risk_load >= 0 and technical_premium >= pure_premium for every input.
C14_RiskLoadAndPremium ==
    RiskDone =>
        \A id \in PricedIds :
            LET p == PricingOf(id)
                m == p.risk_load_method
                load == p.risk_load
                expense == AtLeastZero(req.expense_ratio)
            IN  /\ m = "var" => load = Surd(AtLeastZero(RSub(p.var, p.aal)), Zero)
                /\ m = "tvar" => load = Surd(AtLeastZero(RSub(p.tvar, p.aal)), Zero)
                /\ (m = "stdev" /\ AllFinite(p.loss_per_step)) =>
                       load = Surd(Zero, RMul(Variance(p.loss_per_step),
                                              p.annualization_factor))
                /\ m = "none" => load = Surd(Zero, Zero)
                /\ p.pure_premium = p.aal
                /\ p.technical_premium =
                       Surd(RAdd(RMul(p.pure_premium, RAdd(One, expense)), load.rat), load.sq)
                /\ SurdAtLeast(load, Zero)
                /\ SurdAtLeast(p.technical_premium, p.pure_premium)

\* the quantile_sensitivity list of a pricing result, empty when it carries none
SensitivityOf(p) ==
    IF "quantile_sensitivity" \in DOMAIN p THEN p.quantile_sensitivity ELSE <<>>

\* C15: every pricing result the engine returns, for the combined series as well as for
\* each hazard, carries a quantile_sensitivity list with exactly three entries computed
\* at the fixed quantiles 0.90, 0.95 and 0.99 (VaR, TVaR and technical premium at each),
\* whatever risk_quantile the caller chose.
C15_SensitivityEverywhere ==
    RiskDone =>
        \A id \in PricedIds :
            LET p == PricingOf(id)
                sens == SensitivityOf(p)
                loss == p.loss_per_step
                fixed == <<Rat(9, 10), Rat(19, 20), Rat(99, 100)>>
            IN  /\ Len(sens) = 3
                /\ \A k \in 1..3 :
                      /\ sens[k].quantile = fixed[k]
                      /\ AllFinite(loss) =>
                            /\ sens[k].var = RMul(LinearQuantile(loss, fixed[k]),
                                                   p.annualization_factor)
                            /\ RLe(sens[k].var, sens[k].tvar)
                            /\ SurdAtLeast(sens[k].technical_premium, p.pure_premium)

\* C16: for any non-negative loss series (asset_value > 0, any loss factors, either loss
\* model), AAL, PML, VaR and TVaR are all >= 0.
C16_MeasuresNonNegative ==
    RiskDone =>
        \A id \in PricedIds :
            LET p == PricingOf(id)
            IN  NonNegative(p.loss_per_step) =>
                    /\ RGe(p.aal, Zero)
                    /\ RGe(p.pml, Zero)
                    /\ RGe(p.var, Zero)
                    /\ RGe(p.tvar, Zero)

\* C16 happens: a strictly positive loss series of the continuous model has been priced
C16_Witness ==
    /\ RiskDone
    /\ "wind" \in DOMAIN resp.hazard_pricing_models
    /\ resp.hazard_pricing_models["wind"].continuous
    /\ Len(resp.hazard_pricing_models["wind"].loss_per_step) = 2
    /\ \A i \in 1..2 : RGt(resp.hazard_pricing_models["wind"].loss_per_step[i], Zero)
    /\ RGt(resp.hazard_pricing_models["wind"].var, Zero)
    /\ RGt(resp.hazard_pricing_models["wind"].aal, Zero)

AllZero(s) == \A i \in DOMAIN s : s[i] = Zero

\* C17: when every step's loss is zero (e.g. all states operational), AAL = PML = VaR =
\* TVaR = 0 and technical_premium = 0 for every risk_load_method, risk quantile and
\* expense_ratio.
C17_ZeroLossZeroPremium ==
    RiskDone =>
        \A id \in PricedIds :
            LET p == PricingOf(id)
            IN  /\ (~p.continuous /\ \A i \in DOMAIN StatesOf(id) : StatesOf(id)[i] = 0) =>
                       AllZero(p.loss_per_step)
                /\ AllZero(p.loss_per_step) =>
                       /\ p.aal = Zero /\ p.pml = Zero /\ p.var = Zero /\ p.tvar = Zero
                       /\ p.risk_load = Surd(Zero, Zero)
                       /\ p.technical_premium = Surd(Zero, Zero)

\* C17 happens: an all-operational series priced with the stdev load and expenses
C17_Witness ==
    /\ RiskDone
    /\ resp.pricing_models # <<>>
    /\ resp.combined_status = <<0, 0>>
    /\ resp.pricing_models[1].risk_load_method = "stdev"
    /\ resp.pricing_models[1].expense_ratio = Rat(15, 100)
    /\ resp.pricing_models[1].loss_per_step = <<Zero, Zero>>
    /\ resp.pricing_models[1].technical_premium = Surd(Zero, Zero)

----------------------------------------------------------------------------
(* Properties of the distributions, checked under Spec *)

ExceedDone == pc = "done" /\ ereq # <<>>

NonDecreasing(s) == \A i \in 1..(Len(s) - 1) : RLe(s[i], s[i + 1])

NonIncreasing(s) == \A i \in 1..(Len(s) - 1) : RGe(s[i], s[i + 1])

InUnitInterval(s) == \A i \in DOMAIN s : RGe(s[i], Zero) /\ RLe(s[i], One)

\* the plotting position of rank r among n by the method's name, any other name and
\* no name counting as weibull
PlottingPosition(method, r, n) ==
    IF method \in {<<"hazen">>, <<"HAZEN">>} THEN Rat(2 * r - 1, 2 * n)
    ELSE IF method \in {<<"gringorten">>, <<"Gringorten">>}
    THEN Rat(100 * r - 44, 100 * n + 12)
    ELSE Rat(r, n + 1)

\* the number of samples of a series equal to x
Count(s, x) == Cardinality({i \in DOMAIN s : s[i] = x})

\* C18: for each plotting-position method (weibull r/(n+1), hazen (r-0.5)/n, gringorten
\* (r-0.44)/(n+0.12), rank r = 1..n) and every n >= 1 the exceedance probabilities are a
\* non-decreasing sequence in [0,1] of length n, matched index by index to the cleaned
\* values sorted non-increasing; an unrecognized or missing method name is treated as
\* weibull and n <= 0 yields an empty sequence.
C18_ExceedanceProbabilities ==
    /\ ExceedDone =>
          LET n == ereq[1].n
          IN  /\ n <= 0 => resp.probs = <<>>
              /\ n >= 1 =>
                    /\ Len(resp.probs) = n
                    /\ \A r \in 1..n : resp.probs[r] = PlottingPosition(ereq[1].method, r, n)
                    /\ NonDecreasing(resp.probs)
                    /\ InUnitInterval(resp.probs)
    /\ RiskDone =>
          \A k \in Hazards :
              LET dist == resp.distributions[k]
                  n == Len(dist.exceedance_values)
              IN  /\ Len(dist.exceedance_probs) = n
                  /\ NonIncreasing(dist.exceedance_values)
                  /\ \A x \in Range(resp.values[k]) \cup Range(dist.exceedance_values) :
                        Count(dist.exceedance_values, x)
                            = IF IsNaN(x) THEN 0 ELSE Count(resp.values[k], x)
                  /\ \A r \in 1..n :
                        dist.exceedance_probs[r] = PlottingPosition(req.exceedance_method, r, n)
                  /\ NonDecreasing(dist.exceedance_probs)
                  /\ InUnitInterval(dist.exceedance_probs)

\* C18 happens: the documented wind series ranked with hazen positions
C18_Witness ==
    /\ RiskDone
    /\ req.exceedance_method = <<"hazen">>
    /\ resp.values["wind"] = <<R(10), R(14), R(16), R(22)>>
    /\ resp.distributions["wind"].exceedance_values = <<R(22), R(16), R(14), R(10)>>
    /\ resp.distributions["wind"].exceedance_probs
           = <<Rat(1, 8), Rat(3, 8), Rat(5, 8), Rat(7, 8)>>

NoFiniteValue(s) == \A i \in DOMAIN s : IsNaN(s[i])

ZeroMetrics ==
    [mean |-> Zero, max |-> Zero, p50 |-> Zero, p90 |-> Zero, p95 |-> Zero, p99 |-> Zero]

EmptyDistribution ==
    [hist_bins |-> <<>>, hist_counts |-> <<>>, exceedance_values |-> <<>>,
     exceedance_probs |-> <<>>]

RECURSIVE SumInts(_)
SumInts(s) == IF Len(s) = 0 THEN 0 ELSE s[1] + SumInts(Tail(s))

\* the request is for the wind alone, over a series that is not empty
WindAloneCalled ==
    pc = "done" /\ creq = NoCurveCall /\ ereq = <<>>
    /\ req.hazards = {"wind"} /\ Len(ds.wind) > 0

\* C19: when a hazard series has no finite value its distribution has empty histogram
\* bins/counts and empty exceedance values/probabilities, its metrics mean, max, p50,
\* p90, p95, p99 are all 0.0 and the analysis raises no exception; non-finite samples
\* never enter histogram, exceedance or percentile computation but are retained in the
\* raw series output.
C19_EmptyCleanedArray ==
    /\ WindAloneCalled => resp.status = "ok"
    /\ RiskDone =>
          \A k \in Hazards :
              LET x == resp.values[k]
                  finite == Cardinality({i \in DOMAIN x : ~IsNaN(x[i])})
                  dist == resp.distributions[k]
                  met == resp.metrics[k]
              IN  /\ NoFiniteValue(x) =>
                        dist = EmptyDistribution /\ met = ZeroMetrics
                  /\ Len(dist.exceedance_values) = finite
                  /\ AllFinite(dist.exceedance_values)
                  /\ SumInts(dist.hist_counts) = finite
                  /\ AllFinite(dist.hist_bins)
                  /\ \A f \in DOMAIN met : ~IsNaN(met[f])
                  /\ finite > 0 =>
                        \E i, j \in DOMAIN x :
                            /\ ~IsNaN(x[i]) /\ ~IsNaN(x[j])
                            /\ RLe(x[i], met.p50) /\ RLe(met.p50, met.p99)
                            /\ RLe(met.p99, x[j]) /\ met.max = x[j]
                            /\ \A l \in DOMAIN x : IsNaN(x[l]) \/ RLe(x[l], x[j])
                  /\ req.include_series =>
                        /\ resp.series # <<>>
                        /\ resp.series[1][k] = series_values(ds[k])

\* C19 happens: a wind series of two missing samples, analysed with the raw series
\* asked for
C19_Witness ==
    /\ RiskDone
    /\ req.include_series
    /\ resp.values["wind"] = <<NaN, NaN>>
    /\ resp.distributions["wind"] = EmptyDistribution
    /\ resp.metrics["wind"] = ZeroMetrics
    /\ resp.series[1]["wind"] = <<NaN, NaN>>

\* the series after alignment has no step: some requested hazard is supported, and no
\* timestamp is common to the series of all of them
ZeroLengthAligned ==
    /\ pc = "done" /\ creq = NoCurveCall /\ ereq = <<>>
    /\ series_keys(req.hazards) # <<>>
    /\ common_times(ds, series_keys(req.hazards)) = {}

\* C20: if the series is zero-length after alignment (no timestamp common to all
\* requested hazards, or an empty time window), get_multi_risk_point returns a
\* well-defined degenerate result (zero hour counts, empty distributions, zero-filled
\* metrics) instead of raising; only configuration errors reach the caller as a failure.
C20_ZeroLengthDegenerate ==
    ZeroLengthAligned =>
        /\ resp.status = "ok"
        /\ resp.combined = [operational_hours |-> 0, attention_hours |-> 0,
                            stop_hours |-> 0, total_hours |-> 0]
        /\ \A k \in Hazards :
              /\ resp.hazards[k].operational_hours = 0
              /\ resp.hazards[k].attention_hours = 0
              /\ resp.hazards[k].stop_hours = 0
              /\ resp.distributions[k] = EmptyDistribution
              /\ resp.metrics[k] = ZeroMetrics

\* a call of the engine has returned or raised
EngineDone == pc = "done" /\ creq = NoCurveCall /\ ereq = <<>>

\* C21: if the request's hazard list contains none of the recognized hazards ('wind',
\* 'wave'), get_multi_risk_point fails with a descriptive error before fetching any
\* series or computing anything, and returns no partial result.
C21_NoRecognizedHazard ==
    (EngineDone /\ req.hazards \cap {"wind", "wave"} = {}) =>
        resp = Error("No supported hazards provided.")

\* C21 happens: only 'flood' is requested, over a dataset whose time window is empty
C21_Witness ==
    /\ EngineDone
    /\ req.hazards = {"flood"}
    /\ ds = Dataset(<<>>, <<>>)
    /\ resp.status = "error"

----------------------------------------------------------------------------
(* More properties of the curve store, checked under SpecCurve *)

\* the generic_offshore curve of a hazard code, read from the raw curve data
GenericCurve(haz_type) ==
    IF haz_type = HAZ_WIND THEN <<generic_wind_step_curve>>
    ELSE IF haz_type = HAZ_WAVE THEN <<generic_wave_step_curve>>
    ELSE <<>>

\* MDD * PAA of a raw curve, interpolated at x and clipped
RawCurveAt(curve, x) ==
    LET mdr == [i \in DOMAIN curve.mdd |-> RMul(curve.mdd[i], curve.paa[i])]
    IN  Clip(interp(x, curve.intensity, mdr, Zero, mdr[Len(mdr)]), Zero, One)

UnknownAsset == creq.asset_type \notin DOMAIN registry

\* C22: for an asset_type that is not in the curve registry every curve-store operation
\* uses the generic_offshore curve: calc_damage_ratio(h, x, unknown) equals
\* calc_damage_ratio(h, x, 'generic_offshore') for every hazard code h and intensity x.
C22_UnknownAssetIsGeneric ==
    /\ (CurveDone /\ UnknownAsset) =>
          /\ resp.ratio = calc_damage_ratio(registry, creq.haz_type, creq.intensity,
                                            "generic_offshore")
          /\ \A i \in DOMAIN creq.intensity :
                resp.ratio[i] = IF GenericCurve(creq.haz_type) = <<>> THEN Zero
                                ELSE RawCurveAt(GenericCurve(creq.haz_type)[1],
                                                creq.intensity[i])
    /\ (PointsDone /\ UnknownAsset) =>
          [resp.points EXCEPT !.asset_type = "generic_offshore"]
              = get_curve_points(registry, creq.haz_type, "generic_offshore")
    /\ (DescribeDone /\ UnknownAsset) =>
          [resp.curve EXCEPT !.asset_type = "generic_offshore"]
              = describe_curve(registry, asset_types, creq.haz_type, "generic_offshore")

\* C22 happens: the wind ratio of an unregistered asset type at 15 kn and at 30 kn
C22_Witness ==
    /\ CurveDone
    /\ creq.asset_type = "unknown_asset" /\ creq.haz_type = HAZ_WIND
    /\ creq.intensity = <<R(15), R(30)>>
    /\ resp.ratio = <<Rat(35, 100), One>>

\* the resolved asset type has no curve for the hazard code of the call
NoCurve == get(registry, creq.asset_type, creq.haz_type) = None

\* C23: for a hazard code for which the resolved asset type has no curve,
\* calc_damage_ratio returns an all-zero array of the input's shape and never raises, and
\* get_curve_points returns empty calibration and fine-grid lists.
C23_NoCurveZerosAndEmptyLists ==
    /\ (CurveDone /\ NoCurve) =>
          /\ resp.status = "ok"
          /\ Len(resp.ratio) = Len(creq.intensity)
          /\ \A i \in DOMAIN resp.ratio : resp.ratio[i] = Zero
    /\ (PointsDone /\ NoCurve) =>
          /\ resp.status = "ok"
          /\ resp.points.haz_type = creq.haz_type
          /\ resp.points.asset_type = creq.asset_type
          /\ \A f \in {"intensity", "mdd", "paa", "mdr", "fine_intensity", "fine_mdr"} :
                resp.points[f] = <<>>

\* C23 happens: the curve points of a flood curve of an FPSO, which does not exist
C23_Witness ==
    /\ PointsDone
    /\ creq.haz_type = "FL" /\ creq.asset_type = "fpso"
    /\ resp.points.fine_mdr = <<>> /\ resp.points.intensity = <<>>

\* the zeros happen: a flood ratio of an FPSO for a missing and a large sample
C23_WitnessZeros ==
    /\ CurveDone
    /\ creq.haz_type = "FL" /\ creq.asset_type = "fpso"
    /\ creq.intensity = <<NaN, R(200)>>
    /\ resp.ratio = <<Zero, Zero>>

----------------------------------------------------------------------------
(* Properties of the result as a whole, checked under Spec *)

\* the sections of the result that are null (None)
NullSections == resp.none_keys

\* C24: every section of the analysis result whose prerequisite input is absent is null:
\* the combined pricing model and the per-hazard pricing section when asset_value is
\* absent, the stop-cost pricing when stop_cost_per_hour is absent, and the wind rose
\* when wind is not among the requested hazards.
C24_AbsentInputNullSection ==
    RiskDone =>
        /\ req.asset_value = <<>> =>
              {"pricing_models", "hazard_pricing_models"} \subseteq NullSections
        /\ req.stop_cost_per_hour = <<>> => "pricing" \in NullSections
        /\ "wind" \notin req.hazards => "wind_rose" \in NullSections

\* what does hold of C24: all but the per-hazard pricing section, which is an empty
\* dict when there is no asset value
C24_NullButPerHazard ==
    RiskDone =>
        /\ req.asset_value = <<>> =>
              /\ "pricing_models" \in NullSections /\ resp.pricing_models = <<>>
              /\ "hazard_pricing_models" \notin NullSections
              /\ resp.hazard_pricing_models = EmptyDict
        /\ req.stop_cost_per_hour = <<>> =>
              "pricing" \in NullSections /\ resp.pricing = <<>>
        /\ "wind" \notin req.hazards =>
              "wind_rose" \in NullSections /\ resp.wind_rose = <<>>

\* the requested hazards the engine knows
Requested == req.hazards \cap {"wind", "wave"}

\* the timestamps of a series of the dataset
TimesOf(k) == {ds[k][i].t : i \in DOMAIN ds[k]}

\* the sample of a series of the dataset at a timestamp
SampleAt(k, t) == ds[k][CHOOSE i \in DOMAIN ds[k] : ds[k][i].t = t].v

\* C25: after alignment all requested hazard series share one timestamp axis containing
\* exactly the timestamps present in every requested hazard, in order; every per-hazard
\* state series and the combined state series have the length of that axis, so combined
\* total_hours equals the number of returned timestamps.
C25_SharedTimeAxis ==
    RiskDone =>
        /\ Range(resp.keys) = Requested
        /\ Range(resp.time) = {t \in UNION {TimesOf(k) : k \in Requested} :
                                  \A k \in Requested : t \in TimesOf(k)}
        /\ \A i, j \in DOMAIN resp.time : i < j => resp.time[i] < resp.time[j]
        /\ \A k \in Requested :
              /\ Len(resp.values[k]) = Len(resp.time)
              /\ \A i \in DOMAIN resp.time : resp.values[k][i] = SampleAt(k, resp.time[i])
              /\ Len(resp.status_map[k]) = Len(resp.time)
        /\ Len(resp.combined_status) = Len(resp.time)
        /\ Len(resp.score) = Len(resp.time)
        /\ resp.combined.total_hours = Len(resp.time)

\* C25 happens: wind at one timestamp and wave at two, both requested
C25_Witness ==
    /\ RiskDone
    /\ req.hazards = {"wind", "wave"}
    /\ Len(ds.wind) = 1 /\ Len(ds.wave) = 2
    /\ resp.time = <<1>>
    /\ resp.values = ("wind" :> <<R(16)>>) @@ ("wave" :> <<R(3)>>)
    /\ resp.combined.total_hours = 1

\* a wind-risk analysis has returned
WindRiskDone == pc = "done" /\ creq # NoCurveCall /\ ereq = <<>>

\* the three counts are the numbers of samples in state 0, 1 and 2
CountsOf(summary, states) ==
    /\ summary.operational_hours = Cardinality({i \in DOMAIN states : states[i] = 0})
    /\ summary.attention_hours = Cardinality({i \in DOMAIN states : states[i] = 1})
    /\ summary.stop_hours = Cardinality({i \in DOMAIN states : states[i] = 2})
    /\ summary.operational_hours + summary.attention_hours + summary.stop_hours
           = Len(states)

\* C26: for each hazard, operational_hours, attention_hours and stop_hours are the
\* numbers of samples in state 0, 1 and 2 respectively (no resampling), so the three
\* always sum to the series length; the same holds for the combined summary, where the
\* three counts sum to total_hours.
C26_HoursAreSampleCounts ==
    /\ RiskDone =>
          /\ \A k \in Hazards :
                /\ CountsOf(resp.hazards[k], resp.status_map[k])
                /\ Len(resp.status_map[k]) = Len(resp.values[k])
          /\ CountsOf(resp.combined, resp.combined_status)
          /\ resp.combined.operational_hours + resp.combined.attention_hours
                + resp.combined.stop_hours = resp.combined.total_hours
    /\ WindRiskDone =>
          /\ CountsOf(resp.summary, resp.states)
          /\ Len(resp.states) = Len(ds.wind)
          /\ resp.summary.total_hours = Len(ds.wind)

\* C26 happens: the documented wind series has two operational hours, one of attention
\* and one of stop
C26_Witness ==
    /\ RiskDone
    /\ req.hazards = {"wind"}
    /\ resp.values["wind"] = <<R(10), R(14), R(16), R(22)>>
    /\ resp.hazards["wind"].operational_hours = 2
    /\ resp.hazards["wind"].attention_hours = 1
    /\ resp.hazards["wind"].stop_hours = 1
    /\ resp.combined.total_hours = 4

\* the same in the wind-risk analysis
C26_WitnessWindRisk ==
    /\ WindRiskDone
    /\ resp.speed_knots = <<R(10), R(14), R(16), R(22)>>
    /\ resp.summary = [total_hours |-> 4, operational_hours |-> 2,
                       attention_hours |-> 1, stop_hours |-> 1]

----------------------------------------------------------------------------
(* Properties of the wind rose, checked under Spec *)

\* the sector of a direction in [0, 360]: 22.5 degrees each, the first starting at 0
SectorOf(d) == IF d = R(FullCircle) THEN 16 ELSE (2 * d.n) \div (45 * d.d) + 1

\* the samples of the wind's own axis with a finite direction in [0, 360]
Directed ==
    {i \in DOMAIN ds.direction :
        RGe(ds.direction[i], Zero) /\ RLe(ds.direction[i], R(FullCircle))}

\* the largest speed among the samples of a set, 0 when there is none
MaxSpeed(samples) ==
    IF \A i \in samples : IsNaN(ds.wind[i].v) THEN Zero
    ELSE LET top == CHOOSE i \in samples :
                       /\ ~IsNaN(ds.wind[i].v)
                       /\ \A j \in samples : IsNaN(ds.wind[j].v)
                                               \/ RLe(ds.wind[j].v, ds.wind[i].v)
         IN  ds.wind[top].v

\* C27: the wind rose is produced exactly when 'wind' is among the requested hazards; it
\* has 16 sectors of 22.5 degrees starting at 0 = N, every sample with a finite direction
\* in [0,360] is counted in exactly one sector, and for each sector the total count
\* equals the sum of that sector's operational, attention and stop counts, with
\* spoke_max the maximum wind speed observed in the sector (0 when the sector is empty).
C27_WindRoseSectors ==
    RiskDone =>
        /\ resp.wind_rose # <<>> <=> "wind" \in req.hazards
        /\ "wind" \in req.hazards =>
              LET rose == resp.wind_rose[1]
              IN  /\ Len(rose.direction_labels) = 16 /\ rose.direction_labels[1] = "N"
                  /\ Len(rose.bins) = 16 /\ rose.bins[1][1] = 0 /\ rose.bins[16][2] = 360
                  /\ \A s \in 1..16 :
                        /\ rose.counts[s] = Cardinality({i \in Directed :
                                                           SectorOf(ds.direction[i]) = s})
                        /\ rose.counts[s] = rose.operational_counts[s]
                                               + rose.attention_counts[s]
                                               + rose.stop_counts[s]
                        /\ rose.spoke_max_values[s] =
                              MaxSpeed({i \in Directed : SectorOf(ds.direction[i]) = s})
                  /\ SumInts(rose.counts) = Cardinality(Directed)

\* what holds of C27 when operational_max <= attention_max (ordered thresholds)
C27_OrderedThresholds ==
    (RiskDone /\ "wind" \in req.hazards
        /\ RLe(resp.wind_rose[1].limits.operational_max,
               resp.wind_rose[1].limits.attention_max)) => C27_WindRoseSectors

\* every sample of the dataset's wind series has a speed
AllFiniteWind == \A i \in DOMAIN ds.wind : ~IsNaN(ds.wind[i].v)

\* C29: for every request that includes wind, the wind rose is built on the same time
\* axis and with the same effective thresholds as the wind hazard classification: the
\* rose's operational, attention and stop counts summed over the 16 sectors equal the
\* wind hazard's operational_hours, attention_hours and stop_hours (for all-finite
\* data), including when wave has fewer timestamps than wind and when the wind
\* thresholds are missing or only partly given.
C29_RoseAgreesWithClassification ==
    (EngineDone /\ "wind" \in req.hazards /\ AllFiniteWind /\ ds.wind # <<>>
        /\ ("wave" \in req.hazards => \E t \in TimesOf("wind") : t \in TimesOf("wave"))) =>
        /\ resp.status = "ok"
        /\ resp.wind_rose # <<>>
        /\ resp.wind_rose[1].limits.operational_max = resp.hazards["wind"].operational_max
        /\ resp.wind_rose[1].limits.attention_max = resp.hazards["wind"].attention_max
        /\ SumInts(resp.wind_rose[1].operational_counts)
              = resp.hazards["wind"].operational_hours
        /\ SumInts(resp.wind_rose[1].attention_counts)
              = resp.hazards["wind"].attention_hours
        /\ SumInts(resp.wind_rose[1].stop_counts) = resp.hazards["wind"].stop_hours

\* what holds of C29: the agreement when both wind thresholds are given in order and the
\* request returns
C29_AgreesWithCompleteThresholds ==
    (RiskDone /\ "wind" \in req.hazards /\ AllFiniteWind
        /\ "wind" \in DOMAIN req.thresholds
        /\ DOMAIN req.thresholds["wind"] = {"operational_max", "attention_max"}
        /\ RLe(req.thresholds["wind"]["operational_max"],
               req.thresholds["wind"]["attention_max"])) =>
        /\ resp.wind_rose[1].limits.operational_max = resp.hazards["wind"].operational_max
        /\ resp.wind_rose[1].limits.attention_max = resp.hazards["wind"].attention_max
        /\ SumInts(resp.wind_rose[1].operational_counts)
              = resp.hazards["wind"].operational_hours
        /\ SumInts(resp.wind_rose[1].attention_counts)
              = resp.hazards["wind"].attention_hours
        /\ SumInts(resp.wind_rose[1].stop_counts) = resp.hazards["wind"].stop_hours

\* the wind rose of a request whose wave series lacks a timestamp of the wind series
C29_ShorterWaveRaises ==
    (EngineDone /\ req.hazards = {"wind", "wave"}
        /\ (\E t \in TimesOf("wind") : t \in TimesOf("wave"))
        /\ (\E t \in TimesOf("wind") : t \notin TimesOf("wave"))) =>
        resp.status = "error"

----------------------------------------------------------------------------
(* Missing samples, checked under Spec *)

\* the number of missing samples of a series
Missing(values) == Cardinality({i \in DOMAIN values : IsNaN(values[i])})

C30_WitnessNoThresholds ==
    /\ RiskDone
    /\ req.hazards = {"wind"} /\ req.thresholds = EmptyDict
    /\ resp.values["wind"] = <<NaN, R(10)>>
    /\ resp.status_map["wind"] = <<0, 2>>
    /\ resp.hazards["wind"].operational_hours = 1

----------------------------------------------------------------------------
(* The catalogue under concurrent requests, checked under SpecService *)

\* C28: the curve catalog is completely built when the service object is constructed,
\* before any lookup can occur, and no later operation (get, calc_damage_ratio,
\* get_curve_points, describe_curve, get_available_asset_types, or
\* get_multi_risk_point's use of their results) modifies the registry, the calibration
\* arrays or the asset-type metadata; therefore any interleaving of concurrent requests
\* returns for each request the same result as running it alone.
C28_CatalogueReadOnly ==
    /\ asset_types = ASSET_TYPES
    /\ (pc[0] = "serving" \/ \E c \in Clients : pc[c] # "idle") => registry = build_all
    /\ \A c \in Clients :
          pc[c] = "done" => resp[c] = serve(creq[c], build_all, ASSET_TYPES)

\* C28 happens: a multi-risk analysis of an FPSO has returned while the damage ratio of
\* an unregistered asset type is being computed
C28_Witness ==
    /\ pc[0] = "serving" /\ pc[1] = "running" /\ pc[2] = "done"
    /\ creq[1].op = "calc_damage_ratio" /\ creq[1].asset_type = "unknown_asset"
    /\ creq[2].op = "get_multi_risk_point" /\ creq[2].asset_type = "fpso"
    /\ resp[2].status = "ok"
    /\ resp[2].hazard_pricing_models["wind"].continuous
    /\ resp[2].impact_functions_used["wind"].curve_points.intensity
          = fpso_wind_curve.intensity
    /\ registry = build_all

\* the other order: the ratio has returned while the analysis runs
C28_WitnessRatio ==
    /\ pc[0] = "serving" /\ pc[1] = "done" /\ pc[2] = "running"
    /\ creq[1].op = "calc_damage_ratio" /\ creq[1].asset_type = "unknown_asset"
    /\ creq[2].op = "get_multi_risk_point"
    /\ resp[1].ratio = <<Rat(35, 100), One>>

====
